---- MODULE Spec2Model ----
(***************************************************************************)
(* A model of the history-mining and scoring pipeline of AnalyzeProjectCode *)
(*   src/git_analyzer.py          GitAnalyzer.analyze and its helpers       *)
(*   src/author_quality_scorer.py AuthorQualityScorer                       *)
(*   src/progress_tracker.py      ProgressTracker.update                    *)
(*                                                                         *)
(* Representation.                                                         *)
(*  - A Python str is a sequence of one-character strings, so that strip,  *)
(*    lower, replace and basename are computed, not assumed.               *)
(*  - None and the empty str are both the empty sequence where the code    *)
(*    only tests truthiness.                                               *)
(*  - A defaultdict(int) is a total function with 0 for an absent key plus *)
(*    the sequence of its keys in insertion order (dict order is what      *)
(*    sorted() is stable against).                                         *)
(*  - A float that the code rounds to d decimals is the integer number of  *)
(*    10^-d units (tenths, hundredths); the rounding is computed on the    *)
(*    exact quotient, half to even.                                        *)
(***************************************************************************)
EXTENDS Integers, Sequences, FiniteSets, TLC

\* ------------------------------------------------------------------ bounds

\* Length of commits_list, i.e. the number of commits the commit source yields.
MaxCommits == 3

\* ---------------------------------------------------------------- strings

NoneStr == << >>

RECURSIVE LStrip(_)
\* str.lstrip(): drop leading whitespace.
LStrip(s) ==
    IF s = << >> THEN s
    ELSE IF Head(s) \in {" ", "\n", "\t"} THEN LStrip(Tail(s)) ELSE s

RECURSIVE RStrip(_)
\* str.rstrip(): drop trailing whitespace.
RStrip(s) ==
    IF s = << >> THEN s
    ELSE IF s[Len(s)] \in {" ", "\n", "\t"} THEN RStrip(SubSeq(s, 1, Len(s) - 1)) ELSE s

\* str.strip()
Strip(s) == RStrip(LStrip(s))

\* str.lower() on one character (the letters the model's names use).
LowerChar(c) ==
    CASE c = "A" -> "a"
      [] c = "B" -> "b"
      [] c = "L" -> "l"
      [] c = "O" -> "o"
      [] OTHER -> c

\* str.lower()
Lower(s) == [i \in 1..Len(s) |-> LowerChar(s[i])]

\* str.replace('\\', '/')
NormalizeSeparators(s) == [i \in 1..Len(s) |-> IF s[i] = "\\" THEN "/" ELSE s[i]]

RECURSIVE Basename(_)
\* os.path.basename (posixpath): what follows the last '/'.
Basename(s) ==
    IF \E i \in 1..Len(s) : s[i] = "/"
    THEN Basename(Tail(s))
    ELSE s

\* ------------------------------------------------------------- arithmetic

\* 86400 seconds: the divisor the code turns seconds into days with.
SecondsPerDay == 86400

\* The 5 of `days_diff <= 5`.
RapidReworkDays == 5

Max(a, b) == IF a >= b THEN a ELSE b
Min(a, b) == IF a <= b THEN a ELSE b

\* round(num / den, d) in units of 10^-d, for den > 0 and num already
\* multiplied by 10^d: the nearest integer to num / den, a tie going to the
\* even one (Python 3's round on a float that holds the tie exactly).
PyRound(num, den) ==
    LET q == num \div den
        r == num % den
    IN  IF 2 * r < den THEN q
        ELSE IF 2 * r > den THEN q + 1
        ELSE IF q % 2 = 0 THEN q ELSE q + 1

\* int(num / den) for a quotient >= 0: truncation.
PyInt(num, den) == num \div den

RECURSIVE SumSeq(_)
SumSeq(s) == IF s = << >> THEN 0 ELSE Head(s) + SumSeq(Tail(s))

RECURSIVE SumOver(_, _)
\* sum(f[k] for k in S)
SumOver(f, S) ==
    IF S = {} THEN 0
    ELSE LET k == CHOOSE x \in S : TRUE IN f[k] + SumOver(f, S \ {k})

\* Whether x occurs in sequence s.
InSeq(x, s) == \E i \in 1..Len(s) : s[i] = x

\* dict key insertion: a new key goes to the end, a known key keeps its place.
AddKey(order, k) == IF InSeq(k, order) THEN order ELSE Append(order, k)

\* sorted(range(1, n+1), key=keys.__getitem__): the indices of `keys` in
\* ascending key order; the sort is stable, equal keys keep their order.
SortedIndices(keys) ==
    LET n == Len(keys)
        rank(i) == 1 + Cardinality({j \in 1..n :
                        keys[j] < keys[i] \/ (keys[j] = keys[i] /\ j < i)})
    IN  [r \in 1..n |-> CHOOSE i \in 1..n : rank(i) = r]

\* The same with reverse=True: descending keys, and equal keys still keep
\* their original order (Python reverses the comparison, not the result).
SortedIndicesReverse(keys) ==
    LET n == Len(keys)
        rank(i) == 1 + Cardinality({j \in 1..n :
                        keys[j] > keys[i] \/ (keys[j] = keys[i] /\ j < i)})
    IN  [r \in 1..n |-> CHOOSE i \in 1..n : rank(i) = r]

\* ------------------------------------------------- the commit source's data

\* commit.author.name: raw strings.
AuthorNames == { <<"A", "l">>, <<"b", "o", "b">> }

\* commit.committed_date, seconds since the epoch (1970-01-27 00:16:40,
\* 1970-01-28 and 1970-02-02, UTC): gaps of 0 s, 85400 s (under a day),
\* 5 days exactly and 517400 s (5.99 days), across a month's end.
CommitTimes == { 26 * SecondsPerDay + 1000, 27 * SecondsPerDay, 32 * SecondsPerDay }

\* commit.message before strip().
Messages == { <<"f", "i", "x", "\n">> }

\* parent.diff(commit): the entries git can report, in git's (path) order.
\* A deleted file has no b_path (None), an added file no a_path.
DiffEntries ==
    << [a_path |-> <<"a">>, b_path |-> <<"a">>],
       [a_path |-> <<"s", "/", "b">>, b_path |-> NoneStr] >>

\* The diffs a commit with a parent can have: the empty diff (a merge that
\* changes nothing against its first parent), one file, both files.
Diffs == { SubSeq(DiffEntries, 1, n) : n \in 0..Len(DiffEntries) }

\* commit.stats.total, or NoStats when reading it raises.
NoStats == [available |-> FALSE, insertions |-> 0, deletions |-> 0]
SomeStats == [available |-> TRUE, insertions |-> 3, deletions |-> 1]

\* The commit records the source can yield.  A commit without parents has
\* its diff and stats never read; they are fixed so that it is one record.
\* A commit with a parent has any of the diffs with its stats readable, or a
\* one-file diff whose stats raise.
CommitRecords ==
    { [author |-> a, committed_date |-> t, message |-> m, has_parents |-> FALSE,
       diffs |-> << >>, stats |-> NoStats] :
        a \in AuthorNames, t \in CommitTimes, m \in Messages }
    \cup
    { [author |-> a, committed_date |-> t, message |-> m, has_parents |-> TRUE,
       diffs |-> d, stats |-> SomeStats] :
        a \in AuthorNames, t \in CommitTimes, m \in Messages, d \in Diffs }
    \cup
    { [author |-> a, committed_date |-> t, message |-> m, has_parents |-> TRUE,
       diffs |-> SubSeq(DiffEntries, 1, 1), stats |-> NoStats] :
        a \in AuthorNames, t \in CommitTimes, m \in Messages }

\* The constructor's arguments: exclude_files, filter_authors, progress_tracker.
ExcludeOptions == { << >>, << <<" ", "b">>, << >> >> }
FilterOptions == { << >>, << <<" ", "A", "L">> >> }

\* file_path = diff.b_path if diff.b_path else diff.a_path
DiffFilePath(diff) == IF diff.b_path # NoneStr THEN diff.b_path ELSE diff.a_path

\* A file whose name holds a backslash ("s\b" as git reports it on a POSIX
\* file system), in git's path order after DiffEntries.
BackslashDiffEntry ==
    [a_path |-> <<"s", "\\", "b">>, b_path |-> <<"s", "\\", "b">>]

\* Every path the diffs can name, for the domains of the per-file tallies.
FilePaths ==
    { DiffFilePath(DiffEntries[i]) : i \in 1..Len(DiffEntries) }
    \cup { DiffFilePath(BackslashDiffEntry) }

\* datetime.fromtimestamp(ts).strftime('%Y-%m') as the number YYYYMM, whose
\* order is the string's; for the process's time zone at UTC and the first
\* two months of 1970, which CommitTimes stay within.
MonthKey(ts) == IF ts < 31 * SecondsPerDay THEN 197001 ELSE 197002

MonthKeys == { MonthKey(t) : t \in CommitTimes }

\* ------------------------------------------------------------------ state

VARIABLES
    \* GitAnalyzer.__init__
    exclude_files, filter_authors, progress_tracker,
    \* ProgressTracker.updates (the tracker handed to the analyzer)
    updates,
    \* analyze(): where it is ("loop", "done"), how many commits of commits_list
    \* the for loop has taken, and len(commits_list)
    pc, taken, total_commits,
    \* analyze()'s locals
    file_changes, file_order, commit_count, authors, author_commits,
    author_timeline, total_insertions, total_deletions,
    author_commit_details, author_order, author_file_changes,
    author_file_timeline,
    \* analyze()'s return value
    result,
    \* _get_change_distribution and the hotspot computation applied on their
    \* own: the arguments and what has been computed from them
    tally,
    \* AuthorQualityScorer.calculate_scores: where it is, the authors of
    \* author_quality_data still to score, scored_authors
    scoring,
    \* The analyses that run side by side: for each, its run_analysis_sync
    \* call, or its GitAnalyzer instance and the commits it has been given
    workers,
    \* main.py's progress_queues: session id -> the updates put on its Queue
    progress_queues,
    \* The progress_stream requests: for each session, where its
    \* event_generator is and the events it has yielded
    streams

analyzerVars ==
    << exclude_files, filter_authors, progress_tracker, updates, pc, taken,
       total_commits, file_changes, file_order, commit_count, authors,
       author_commits, author_timeline, total_insertions, total_deletions,
       author_commit_details, author_order, author_file_changes,
       author_file_timeline, result >>

serviceVars == << workers, progress_queues, streams >>

vars == << analyzerVars, tally, scoring, serviceVars >>

\* ------------------------------------------------- GitAnalyzer's predicates

\* str.endswith
EndsWith(s, suffix) ==
    /\ Len(suffix) <= Len(s)
    /\ SubSeq(s, Len(s) - Len(suffix) + 1, Len(s)) = suffix

\* _is_excluded_file with the match of lines 271-273, which the source has
\* commented out: normalized_path.endswith(exclude_normalized).
IsExcludedFile_PathEndsWith(excl, file_path) ==
    /\ excl # << >>
    /\ LET normalized_path == NormalizeSeparators(file_path)
       IN  \E i \in 1..Len(excl) :
               /\ Strip(excl[i]) # << >>
               /\ EndsWith(normalized_path, NormalizeSeparators(Strip(excl[i])))

\* _is_excluded_file(file_path) with self.exclude_files = excl
IsExcludedFile(excl, file_path) ==
    /\ excl # << >>
    /\ LET normalized_path == NormalizeSeparators(file_path)
           file_name == Basename(normalized_path)
       IN  \E i \in 1..Len(excl) :
               /\ Strip(excl[i]) # << >>
               /\ NormalizeSeparators(Strip(excl[i])) = file_name

\* _is_filtered_author comparing the names as they are, without lower().
IsFilteredAuthor_CaseSensitive(filt, author_name) ==
    \/ filt = << >>
    \/ \E i \in 1..Len(filt) :
           /\ Strip(filt[i]) # << >>
           /\ Strip(filt[i]) = Strip(author_name)

\* _is_filtered_author(author_name) with self.filter_authors = filt
IsFilteredAuthor(filt, author_name) ==
    \/ filt = << >>
    \/ \E i \in 1..Len(filt) :
           /\ Strip(filt[i]) # << >>
           /\ Lower(Strip(filt[i])) = Strip(Lower(author_name))

\* --------------------------------------------------------- analyze(): Init

EmptyTally == [p \in FilePaths |-> 0]

\* The state analyze() starts its loop in (lines 56-74), for each way the
\* analyzer can have been constructed and each length of commits_list.
AnalyzerInit ==
    /\ exclude_files \in ExcludeOptions
    /\ filter_authors \in FilterOptions
    /\ progress_tracker \in BOOLEAN
    /\ total_commits \in 0..MaxCommits
    /\ updates = << >>
    /\ pc = "loop"
    /\ taken = 0
    /\ file_changes = EmptyTally
    /\ file_order = << >>
    /\ commit_count = 0
    /\ authors = {}
    /\ author_commits = [a \in AuthorNames |-> 0]
    /\ author_timeline = [a \in AuthorNames |-> [m \in MonthKeys |-> 0]]
    /\ total_insertions = 0
    /\ total_deletions = 0
    /\ author_commit_details = [a \in AuthorNames |-> << >>]
    /\ author_order = << >>
    /\ author_file_changes = [a \in AuthorNames |-> EmptyTally]
    /\ author_file_timeline = [a \in AuthorNames |-> [p \in FilePaths |-> << >>]]
    /\ result = [returned |-> FALSE]

\* ------------------------------------------- analyze(): one loop iteration

\* commit_files if the loop went over the diffs against every parent of a
\* merge, not only against commit.parents[0].
CommitFiles_AllParents(commit, excl) ==
    LET diffs == IF "merge_diffs" \in DOMAIN commit
                 THEN commit.diffs \o commit.merge_diffs ELSE commit.diffs
        paths == [i \in 1..Len(diffs) |-> DiffFilePath(diffs[i])]
        Kept(file_path) == file_path # NoneStr /\ ~IsExcludedFile(excl, file_path)
    IN  IF commit.has_parents THEN SelectSeq(paths, Kept) ELSE << >>

\* commit_files after the `for diff in diffs` loop: the paths that are
\* non-empty and not excluded, in the diff's order (empty without a parent).
CommitFiles(commit, excl) ==
    LET paths == [i \in 1..Len(commit.diffs) |-> DiffFilePath(commit.diffs[i])]
        Kept(file_path) == file_path # NoneStr /\ ~IsExcludedFile(excl, file_path)
    IN  IF commit.has_parents THEN SelectSeq(paths, Kept) ELSE << >>

\* How many times x occurs in sequence s.
Occurrences(s, x) == Cardinality({ i \in 1..Len(s) : s[i] = x })

RECURSIVE AddKeys(_, _)
\* The dict's key order after inserting the keys of `ks` one after another.
AddKeys(order, ks) ==
    IF ks = << >> THEN order ELSE AddKeys(AddKey(order, Head(ks)), Tail(ks))

\* A slip of line 103: `file_changes[file_path] = 1` for `+= 1`.
CountFileChanges_Assigned(changes, commit_files) ==
    [p \in DOMAIN changes |-> IF Occurrences(commit_files, p) > 0 THEN 1 ELSE changes[p]]

\* Line 103: file_changes after `file_changes[file_path] += 1` for each path
\* of commit_files.
CountFileChanges(changes, commit_files) ==
    [p \in DOMAIN changes |-> changes[p] + Occurrences(commit_files, p)]

\* Line 106: author_file_changes[author_name] after
\* `author_file_changes[author_name][file_path] += 1` for each path.
CountAuthorFileChanges(changes, commit_files) ==
    [p \in DOMAIN changes |-> changes[p] + Occurrences(commit_files, p)]

\* Lines 108-111: author_file_timeline[author_name] after the appends.  An
\* entry is its timestamp; its commit_hash, which nothing reads, is left out.
AppendFileTimeline(timelines, commit_files, committed_date) ==
    [p \in DOMAIN timelines |->
        timelines[p] \o [i \in 1..Occurrences(commit_files, p) |->
                            [timestamp |-> committed_date]]]

\* A slip of line 125: the commit's files counted from its diff, excluded
\* paths included, instead of from commit_files.
CommitDetail_CountsDiffs(commit, commit_files) ==
    [timestamp |-> commit.committed_date,
     message |-> Strip(commit.message),
     files_count |-> Len(commit.diffs),
     files |-> commit_files]

\* Lines 122-127: the commit's entry of author_commit_details.
CommitDetail(commit, commit_files) ==
    [timestamp |-> commit.committed_date,
     message |-> Strip(commit.message),
     files_count |-> Len(commit_files),
     files |-> commit_files]

\* Lines 114-119: what the commit adds to total_insertions / total_deletions.
StatInsertions(commit) ==
    IF commit.has_parents /\ commit.stats.available THEN commit.stats.insertions ELSE 0

StatDeletions(commit) ==
    IF commit.has_parents /\ commit.stats.available THEN commit.stats.deletions ELSE 0

\* progress_percentage = int(55 + (commit_count / total_commits * 40))
ProgressPercentage(count, total) == 55 + PyInt(count * 40, total)

\* The 20 of `commit_count % 20 == 0`.
ProgressEvery == 20

\* ProgressTracker.update(stage, current, total, message): the update it
\* appends to self.updates (its timestamp, the wall clock's, left out; the
\* message is the pair of numbers its text is formatted from).
ProgressUpdate(stage, current, total, message) ==
    [stage |-> stage, current |-> current, total |-> total, message |-> message]

\* Lines 129-139 without the `if self.progress_tracker:` of line 130: the
\* update is made whether there is a tracker or not.
ReportProgress_Unguarded(tracker, ups, count, total) ==
    IF count % ProgressEvery = 0 \/ count = total
    THEN Append(ups, ProgressUpdate("git_analysis", ProgressPercentage(count, total),
                                    100, << count, total >>))
    ELSE ups

\* Lines 129-139: the tracker's updates after a commit has been processed.
ReportProgress(tracker, ups, count, total) ==
    IF tracker /\ (count % ProgressEvery = 0 \/ count = total)
    THEN Append(ups, ProgressUpdate("git_analysis", ProgressPercentage(count, total),
                                    100, << count, total >>))
    ELSE ups

\* Lines 77-139: the body of `for commit in commits_list` for one commit.
AnalyzeCommit(commit) ==
    /\ pc = "loop"
    /\ taken < total_commits
    /\ taken' = taken + 1
    /\ LET author_name == commit.author
           month_key == MonthKey(commit.committed_date)
           commit_files == CommitFiles(commit, exclude_files)
       IN  IF filter_authors # << >> /\ ~IsFilteredAuthor(filter_authors, author_name)
           THEN UNCHANGED << file_changes, file_order, commit_count, authors,
                             author_commits, author_timeline, total_insertions,
                             total_deletions, author_commit_details, author_order,
                             author_file_changes, author_file_timeline, updates >>
           ELSE
             /\ commit_count' = commit_count + 1
             /\ authors' = authors \cup { author_name }
             /\ author_commits' = [author_commits EXCEPT ![author_name] = @ + 1]
             /\ author_timeline' =
                    [author_timeline EXCEPT ![author_name][month_key] = @ + 1]
             /\ file_changes' = CountFileChanges(file_changes, commit_files)
             /\ file_order' = AddKeys(file_order, commit_files)
             /\ author_file_changes' =
                    [author_file_changes EXCEPT ![author_name] =
                        CountAuthorFileChanges(@, commit_files)]
             /\ author_file_timeline' =
                    [author_file_timeline EXCEPT ![author_name] =
                        AppendFileTimeline(@, commit_files, commit.committed_date)]
             /\ total_insertions' = total_insertions + StatInsertions(commit)
             /\ total_deletions' = total_deletions + StatDeletions(commit)
             /\ author_commit_details' =
                    [author_commit_details EXCEPT ![author_name] =
                        Append(@, CommitDetail(commit, commit_files))]
             /\ author_order' = AddKey(author_order, author_name)
             /\ updates' = ReportProgress(progress_tracker, updates,
                                          commit_count + 1, total_commits)
    /\ UNCHANGED << exclude_files, filter_authors, progress_tracker, total_commits,
                    pc, result >>

\* ------------------------------------------------ analyze(): after the loop

\* sorted(values): the values in ascending order.
SortedValues(values) ==
    LET ix == SortedIndices(values) IN [r \in 1..Len(values) |-> values[ix[r]]]

\* sorted(values, reverse=True)
SortedValuesReverse(values) ==
    LET ix == SortedIndicesReverse(values) IN [r \in 1..Len(values) |-> values[ix[r]]]

\* s[:n]
Take(s, n) == SubSeq(s, 1, Min(n, Len(s)))

\* The values of dict (changes, order), in the dict's order.
DictValues(changes, order) == [i \in 1..Len(order) |-> changes[order[i]]]

\* sorted(d.keys(), key=lambda x: d[x], reverse=True) for the dict (changes, order)
KeysByChangesReverse(changes, order) ==
    LET ix == SortedIndicesReverse(DictValues(changes, order))
    IN  [r \in 1..Len(order) |-> order[ix[r]]]

\* _get_change_distribution with `if` where lines 209 and 211 have `elif`:
\* a count is tested against every bucket's upper edge.
GetChangeDistribution_Overlapping(changes, order) ==
    LET counts == DictValues(changes, order)
        n(Test(_)) == Cardinality({ i \in 1..Len(counts) : Test(counts[i]) })
        Low(c) == c <= 5
        Medium(c) == c <= 15
        High(c) == c <= 30
        VeryHigh(c) == ~(c <= 30)
    IN  [low |-> n(Low), medium |-> n(Medium), high |-> n(High),
         very_high |-> n(VeryHigh)]

\* _get_change_distribution(file_changes)
GetChangeDistribution(changes, order) ==
    LET counts == DictValues(changes, order)
        n(Test(_)) == Cardinality({ i \in 1..Len(counts) : Test(counts[i]) })
        Low(c) == c <= 5
        Medium(c) == ~(c <= 5) /\ c <= 15
        High(c) == ~(c <= 5) /\ ~(c <= 15) /\ c <= 30
        VeryHigh(c) == ~(c <= 5) /\ ~(c <= 15) /\ ~(c <= 30)
    IN  [low |-> n(Low), medium |-> n(Medium), high |-> n(High),
         very_high |-> n(VeryHigh)]

\* The 0.2 of `int(total_files * 0.2)`, in percent.
HotspotPercent == 20

\* top_20_percent_count with math.ceil for int.
Top20PercentCount_Ceiling(total_files) ==
    Max(1, PyInt(total_files * HotspotPercent + 99, 100))

\* top_20_percent_count = max(1, int(total_files * 0.2))
Top20PercentCount(total_files) == Max(1, PyInt(total_files * HotspotPercent, 100))

\* top_hotspot_files sorted without reverse=True: the least changed files.
TopHotspotFiles_LeastChanged(changes, order) ==
    LET ix == SortedIndices(DictValues(changes, order))
        ranked == [r \in 1..Len(order) |-> order[ix[r]]]
        top == Take(ranked, Top20PercentCount(Len(order)))
    IN  { top[i] : i \in 1..Len(top) }

\* top_hotspot_files (lines 401-403), for the dict (changes, order)
TopHotspotFiles(changes, order) ==
    LET ranked == KeysByChangesReverse(changes, order)
        top == Take(ranked, Top20PercentCount(Len(order)))
    IN  { top[i] : i \in 1..Len(top) }

\* hotspot_participation (lines 405-406) in tenths of a percent, rounded as
\* line 456 does, for an author whose touched files are author_files
HotspotParticipation(author_files, changes, order) ==
    LET files_modified == Cardinality(author_files)
        hotspot_changes == Cardinality(author_files \cap TopHotspotFiles(changes, order))
    IN  IF files_modified > 0 THEN PyRound(hotspot_changes * 1000, files_modified) ELSE 0

\* The 10 of `sorted_author_files[:10]`.
TopFilesCount == 10

\* file_concentration with 1 for both defaults of lines 396-397: an author
\* without files gets 100.
FileConcentration_FullWhenEmpty(values) ==
    LET sorted_author_files == SortedValuesReverse(values)
        top_10_changes ==
            IF Len(values) > 0 THEN SumSeq(Take(sorted_author_files, TopFilesCount)) ELSE 1
        total_author_changes == IF Len(values) > 0 THEN SumSeq(values) ELSE 1
    IN  IF total_author_changes > 0
        THEN PyRound(top_10_changes * 1000, total_author_changes) ELSE 0

\* file_concentration (lines 394-398) in tenths of a percent, rounded, from
\* the author's per-file counts in their dict order
FileConcentration(values) ==
    LET sorted_author_files == SortedValuesReverse(values)
        top_10_changes ==
            IF Len(values) > 0 THEN SumSeq(Take(sorted_author_files, TopFilesCount)) ELSE 0
        total_author_changes == IF Len(values) > 0 THEN SumSeq(values) ELSE 1
    IN  IF total_author_changes > 0
        THEN PyRound(top_10_changes * 1000, total_author_changes) ELSE 0

\* Lines 436-442 for one file: the gaps between consecutive modifications of
\* the time-sorted timeline, in seconds.
TimelineGaps(timeline) ==
    LET sorted_timeline == SortedValues([i \in 1..Len(timeline) |-> timeline[i].timestamp])
    IN  [i \in 1..(Len(timeline) - 1) |-> sorted_timeline[i + 1] - sorted_timeline[i]]

\* A slip of line 441: `days_diff < 5`.
IsRapidRework_Strict(gap) == gap < RapidReworkDays * SecondsPerDay

\* days_diff <= 5, for days_diff = gap / 86400
IsRapidRework(gap) == gap <= RapidReworkDays * SecondsPerDay

\* A slip of lines 428-438: every modification counted as an interval (a
\* file modified once counts one), not every gap between two.
RapidRework_CountsModifications(timelines) ==
    LET files == { p \in DOMAIN timelines : Len(timelines[p]) >= 1 }
        intervals == [p \in files |-> Len(timelines[p])]
        rapid == [p \in files |->
                    LET gaps == TimelineGaps(timelines[p])
                    IN  1 + Cardinality({ i \in 1..Len(gaps) : IsRapidRework(gaps[i]) })]
    IN  [rapid_rework_count |-> SumOver(rapid, files),
         total_file_modifications |-> SumOver(intervals, files)]

\* Lines 423-445: [rapid_rework_count, total_file_modifications] over the
\* author's per-file timelines; a file modified once is skipped.
RapidRework(timelines) ==
    LET files == { p \in DOMAIN timelines : ~(Len(timelines[p]) <= 1) }
        intervals == [p \in files |-> Len(timelines[p]) - 1]
        rapid == [p \in files |->
                    LET gaps == TimelineGaps(timelines[p])
                    IN  Cardinality({ i \in 1..Len(gaps) : IsRapidRework(gaps[i]) })]
    IN  [rapid_rework_count |-> SumOver(rapid, files),
         total_file_modifications |-> SumOver(intervals, files)]

\* A slip of line 368: the commits taken in traversal order, not sorted.
ActiveSeconds_Unsorted(commits) ==
    Max(SecondsPerDay, commits[Len(commits)].timestamp - commits[1].timestamp)

\* active_days (lines 368-373) as a number of seconds: max(1, span / 86400) days
ActiveSeconds(commits) ==
    LET sorted_commits == SortedValues([i \in 1..Len(commits) |-> commits[i].timestamp])
        first_commit_time == sorted_commits[1]
        last_commit_time == sorted_commits[Len(commits)]
    IN  Max(SecondsPerDay, last_commit_time - first_commit_time)

\* last_commit_time (line 372)
LastCommitTime(commits) ==
    SortedValues([i \in 1..Len(commits) |-> commits[i].timestamp])[Len(commits)]

\* Line 451 with round(avg_files_per_commit, 1): the value has one decimal
\* (in hundredths, a multiple of 10).
AvgFilesPerCommit_OneDecimal(total_files_in_commits, n) ==
    IF n > 0 THEN 10 * PyRound(total_files_in_commits * 10, n) ELSE 0

\* Lines 377 and 451: round(total_files_in_commits / len(commits), 2), in
\* hundredths.
AvgFilesPerCommit(total_files_in_commits, n) ==
    IF n > 0 THEN PyRound(total_files_in_commits * 100, n) ELSE 0

\* Lines 418-419 with round() in the place of int().
AuthorShareOfChanges_Rounded(amount, n, total) ==
    IF total > 0 THEN PyRound(amount * n, total) ELSE 0

\* Lines 418-419: int(total_insertions * (len(commits) / total_commits)) if
\* total_commits > 0 else 0, and the same for total_deletions. The product is
\* a float; for the totals reached here int() of it is the whole part of the
\* exact quotient amount * n / total.
AuthorShareOfChanges(amount, n, total) ==
    IF total > 0 THEN PyInt(amount * n, total) ELSE 0

\* The body of the `for author, commits` loop of _prepare_author_quality_data
\* (lines 367-462): the author's entry of author_data.  Values the code
\* rounds to one decimal are in tenths, those it rounds to two in hundredths.
\* `all` holds the arguments that are the same for every author:
\* all_file_changes (with its key order), total_commits, total_insertions,
\* total_deletions.
AuthorQualityEntry(commits, author_files_changes, author_files_timeline, all, current_time) ==
    LET n == Len(commits)
        all_file_changes == all.file_changes
        all_file_order == all.file_order
        total == all.total_commits
        insertions == all.total_insertions
        deletions == all.total_deletions
        active == ActiveSeconds(commits)
        total_files_in_commits == SumSeq([i \in 1..n |-> commits[i].files_count])
        total_message_length == SumSeq([i \in 1..n |-> Len(commits[i].message)])
        author_files == { p \in DOMAIN author_files_changes : author_files_changes[p] > 0 }
        \* the author's per-file counts; only their multiset is read
        author_file_order == SelectSeq(all_file_order, LAMBDA p : p \in author_files)
        rework == RapidRework(author_files_timeline)
        author_insertions == AuthorShareOfChanges(insertions, n, total)
        author_deletions == AuthorShareOfChanges(deletions, n, total)
    IN  [total_commits |-> n,
         files_modified |-> Cardinality(author_files),
         active_days |-> PyRound(active * 10, SecondsPerDay),
         avg_files_per_commit |-> AvgFilesPerCommit(total_files_in_commits, n),
         avg_message_length |->
             IF n > 0 THEN PyRound(total_message_length * 10, n) ELSE 0,
         avg_commit_interval |->
             IF n > 1 THEN PyRound(active * 100, SecondsPerDay * n)
             ELSE PyRound(active * 100, SecondsPerDay),
         days_since_last_commit |->
             PyRound((current_time - LastCommitTime(commits)) * 10, SecondsPerDay),
         file_concentration |->
             FileConcentration(DictValues(author_files_changes, author_file_order)),
         hotspot_participation |->
             HotspotParticipation(author_files, all_file_changes, all_file_order),
         contribution_ratio |-> IF total > 0 THEN PyRound(n * 1000, total) ELSE 0,
         total_code_changes |-> author_insertions + author_deletions,
         rapid_rework_ratio |->
             IF rework.total_file_modifications > 0
             THEN PyRound(rework.rapid_rework_count * 1000,
                          rework.total_file_modifications)
             ELSE 0,
         rapid_rework_count |-> rework.rapid_rework_count,
         total_file_modifications |-> rework.total_file_modifications]

\* _prepare_author_quality_data: author_data, a dict whose keys are the
\* authors with commit details, in author_commit_details' order.
PrepareAuthorQualityData(details, details_order, a_file_changes, a_file_timeline, all, current_time) ==
    LET keys == SelectSeq(details_order, LAMBDA a : details[a] # << >>)
    IN  [order |-> keys,
         data |-> [a \in { keys[i] : i \in 1..Len(keys) } |->
                     AuthorQualityEntry(details[a], a_file_changes[a],
                                        a_file_timeline[a], all, current_time)]]

\* _process_developer_activity: the sorted month axis and, per author by
\* commit count descending, the commits of each month of the axis.
ProcessDeveloperActivity(commits_of, timeline, order) ==
    LET sorted_authors == KeysByChangesReverse(commits_of, order)
        seen == { m \in MonthKeys : \E i \in 1..Len(order) : timeline[order[i]][m] > 0 }
        RECURSIVE Ascending(_)
        Ascending(S) ==
            IF S = {} THEN << >>
            ELSE LET m == CHOOSE x \in S : \A y \in S : x <= y
                 IN  << m >> \o Ascending(S \ { m })
        all_months == Ascending(seen)
    IN  [months |-> all_months,
         authors |-> [i \in 1..Len(sorted_authors) |->
                        [author |-> sorted_authors[i],
                         total_commits |-> commits_of[sorted_authors[i]],
                         timeline |-> [k \in 1..Len(all_months) |->
                                          timeline[sorted_authors[i]][all_months[k]]]]]]

\* The 50 of `sorted_files[:50]`.
TopChangedCount == 50

\* top_changed_files (lines 142-155)
TopChangedFiles(changes, order) ==
    LET sorted_files == KeysByChangesReverse(changes, order)
        top == Take(sorted_files, TopChangedCount)
    IN  [i \in 1..Len(top) |-> [filename |-> top[i], changes |-> changes[top[i]]]]

\* time.time() when the metrics are derived: after every commit's time.
CurrentTimes == { 40 * SecondsPerDay + 30000 }

\* Lines 141-187: what analyze() returns once the loop has taken every commit.
Return(current_time) ==
    /\ pc = "loop"
    /\ taken = total_commits
    /\ pc' = "done"
    /\ result' =
        [returned |-> TRUE,
         summary |-> [total_commits |-> commit_count,
                      total_authors |-> Cardinality(authors),
                      total_files_changed |-> Len(file_order),
                      total_insertions |-> total_insertions,
                      total_deletions |-> total_deletions,
                      authors |-> authors],
         top_changed_files |-> TopChangedFiles(file_changes, file_order),
         change_distribution |-> GetChangeDistribution(file_changes, file_order),
         developer_activity |->
             ProcessDeveloperActivity(author_commits, author_timeline, author_order),
         author_quality_data |->
             PrepareAuthorQualityData(
                 author_commit_details, author_order, author_file_changes,
                 author_file_timeline,
                 [file_changes |-> file_changes, file_order |-> file_order,
                  total_commits |-> commit_count,
                  total_insertions |-> total_insertions,
                  total_deletions |-> total_deletions],
                 current_time)]
    /\ UNCHANGED << exclude_files, filter_authors, progress_tracker, updates, taken,
                    total_commits, file_changes, file_order, commit_count, authors,
                    author_commits, author_timeline, total_insertions,
                    total_deletions, author_commit_details, author_order,
                    author_file_changes, author_file_timeline >>

\* ------------------------------------- analyze() as a function of its state

\* One invocation of analyze() on one GitAnalyzer instance, as a record of
\* the instance's fields (lines 15-43), its tracker's updates and analyze()'s
\* locals (lines 56-74): what AnalyzerInit is for the variables.
AnalyzerStart(excl, filt, tracker, total) ==
    [exclude_files |-> excl,
     filter_authors |-> filt,
     progress_tracker |-> tracker,
     total_commits |-> total,
     updates |-> << >>,
     pc |-> "loop",
     taken |-> 0,
     file_changes |-> EmptyTally,
     file_order |-> << >>,
     commit_count |-> 0,
     authors |-> {},
     author_commits |-> [a \in AuthorNames |-> 0],
     author_timeline |-> [a \in AuthorNames |-> [m \in MonthKeys |-> 0]],
     total_insertions |-> 0,
     total_deletions |-> 0,
     author_commit_details |-> [a \in AuthorNames |-> << >>],
     author_order |-> << >>,
     author_file_changes |-> [a \in AuthorNames |-> EmptyTally],
     author_file_timeline |-> [a \in AuthorNames |-> [p \in FilePaths |-> << >>]],
     result |-> [returned |-> FALSE]]

\* Lines 81-82: the commit is skipped by the author filter.
SkipsCommit(filt, commit) == filt # << >> /\ ~IsFilteredAuthor(filt, commit.author)

\* Lines 77-139 for one commit, on the record `an`: what AnalyzeCommit does
\* to the variables.
AnalyzeStep(an, commit) ==
    LET author_name == commit.author
        month_key == MonthKey(commit.committed_date)
        commit_files == CommitFiles(commit, an.exclude_files)
    IN  IF SkipsCommit(an.filter_authors, commit)
        THEN [an EXCEPT !.taken = @ + 1]
        ELSE [an EXCEPT
                !.taken = @ + 1,
                !.commit_count = @ + 1,
                !.authors = @ \cup { author_name },
                !.author_commits[author_name] = @ + 1,
                !.author_timeline[author_name][month_key] = @ + 1,
                !.file_changes = CountFileChanges(@, commit_files),
                !.file_order = AddKeys(@, commit_files),
                !.author_file_changes[author_name] = CountAuthorFileChanges(@, commit_files),
                !.author_file_timeline[author_name] =
                    AppendFileTimeline(@, commit_files, commit.committed_date),
                !.total_insertions = @ + StatInsertions(commit),
                !.total_deletions = @ + StatDeletions(commit),
                !.author_commit_details[author_name] =
                    Append(@, CommitDetail(commit, commit_files)),
                !.author_order = AddKey(@, author_name),
                !.updates = ReportProgress(an.progress_tracker, @,
                                           an.commit_count + 1, an.total_commits)]

\* Lines 141-187 on the record `an`: what Return does to the variables.
AnalyzeReturn(an, current_time) ==
    [an EXCEPT
        !.pc = "done",
        !.result =
            [returned |-> TRUE,
             summary |-> [total_commits |-> an.commit_count,
                          total_authors |-> Cardinality(an.authors),
                          total_files_changed |-> Len(an.file_order),
                          total_insertions |-> an.total_insertions,
                          total_deletions |-> an.total_deletions,
                          authors |-> an.authors],
             top_changed_files |-> TopChangedFiles(an.file_changes, an.file_order),
             change_distribution |-> GetChangeDistribution(an.file_changes, an.file_order),
             developer_activity |->
                 ProcessDeveloperActivity(an.author_commits, an.author_timeline,
                                          an.author_order),
             author_quality_data |->
                 PrepareAuthorQualityData(
                     an.author_commit_details, an.author_order, an.author_file_changes,
                     an.author_file_timeline,
                     [file_changes |-> an.file_changes, file_order |-> an.file_order,
                      total_commits |-> an.commit_count,
                      total_insertions |-> an.total_insertions,
                      total_deletions |-> an.total_deletions],
                     current_time)]]

\* The variables of analyze() as one record.
AnalyzerRecord ==
    [exclude_files |-> exclude_files,
     filter_authors |-> filter_authors,
     progress_tracker |-> progress_tracker,
     total_commits |-> total_commits,
     updates |-> updates,
     pc |-> pc,
     taken |-> taken,
     file_changes |-> file_changes,
     file_order |-> file_order,
     commit_count |-> commit_count,
     authors |-> authors,
     author_commits |-> author_commits,
     author_timeline |-> author_timeline,
     total_insertions |-> total_insertions,
     total_deletions |-> total_deletions,
     author_commit_details |-> author_commit_details,
     author_order |-> author_order,
     author_file_changes |-> author_file_changes,
     author_file_timeline |-> author_file_timeline,
     result |-> result]

\* analyze() run from its first line to its return on the commits of
\* commits_list, one after the other, with nothing else running.
RECURSIVE AnalyzeAll(_, _)
AnalyzeAll(an, commits) ==
    IF commits = << >> THEN an
    ELSE AnalyzeAll(AnalyzeStep(an, Head(commits)), Tail(commits))

\* ------------------------------------------- the service's shared state

\* No analysis has been submitted, progress_queues is empty (line 51), and
\* no progress stream has been requested.
ServiceIdle == workers = << >> /\ progress_queues = << >> /\ streams = << >>

\* request.session_id: a session, or none.
NoSession == ""
SessionIds == { "s1", "s2" }

\* The commits the repository of an analysis held in `workers` yields, at
\* most.
MaxWorkerCommits == 2

\* ---------------------------- two analyses in two threads, side by side

\* Two threads, each with a GitAnalyzer instance of its own.
InstanceIds == { 1, 2 }

\* The commits of the instances' repositories: one of each author, both
\* files changed.
ConcurrentCommits ==
    { c \in CommitRecords :
        /\ c.has_parents
        /\ c.stats.available
        /\ Len(c.diffs) = Len(DiffEntries)
        /\ c.committed_date = 27 * SecondsPerDay }

\* exclude_files and filter_authors of an instance: neither configured, or
\* both.
ConcurrentConfigs ==
    { r \in [exclude_files : ExcludeOptions, filter_authors : FilterOptions] :
        (r.exclude_files = << >>) = (r.filter_authors = << >>) }

\* Neither thread has constructed its GitAnalyzer yet.
ConcurrentInit ==
    /\ workers = [w \in InstanceIds |->
                     [pc |-> "created", commits |-> << >>, an |-> [pc |-> "none"]]]
    /\ progress_queues = << >>
    /\ streams = << >>

\* The state of instance w's call if file_changes were one dict of the
\* module, which every call counts into: the call reads the counts of all
\* the calls.
InvocationState_SharedFileChanges(ws, w) ==
    [ws[w].an EXCEPT
        !.file_changes =
            [p \in FilePaths |->
                SumOver([v \in InstanceIds |->
                            IF ws[v].pc = "created" THEN 0
                            ELSE ws[v].an.file_changes[p]], InstanceIds)]]

\* The locals of instance w's analyze() call (lines 56-67) and the fields of
\* the instance (lines 39-43): the state its loop reads and writes.
InvocationState(ws, w) == ws[w].an

\* Thread w constructs its GitAnalyzer with a ProgressTracker of its own
\* (lines 16-43), calls analyze() and comes to the head of the loop with the
\* commits of its repository listed (lines 56-74).
ConcurrentStart(w, excl, filt, total) ==
    /\ workers[w].pc = "created"
    /\ workers' = [workers EXCEPT ![w].pc = "analyzing",
                                  ![w].an = AnalyzerStart(excl, filt, TRUE, total)]
    /\ UNCHANGED << progress_queues, streams >>

\* One iteration of the loop of thread w's analyze() (lines 77-139).
ConcurrentCommit(w, commit) ==
    /\ workers[w].pc = "analyzing"
    /\ workers[w].an.taken < workers[w].an.total_commits
    /\ workers' = [workers EXCEPT
                      ![w].an = AnalyzeStep(InvocationState(workers, w), commit),
                      ![w].commits = Append(@, commit)]
    /\ UNCHANGED << progress_queues, streams >>

\* Thread w's analyze() returns (lines 141-187).
ConcurrentReturn(w, current_time) ==
    /\ workers[w].pc = "analyzing"
    /\ workers[w].an.taken = workers[w].an.total_commits
    /\ workers' = [workers EXCEPT
                      ![w].pc = "finished",
                      ![w].an = AnalyzeReturn(InvocationState(workers, w), current_time)]
    /\ UNCHANGED << progress_queues, streams >>

\* ------------------------------- one analysis, with and without a tracker

\* Two GitAnalyzer instances constructed alike (lines 15-43) but for
\* progress_tracker, a ProgressTracker for one and None for the other, on
\* the same repository: workers[TRUE] has the tracker.
SinkInit ==
    /\ \E excl \in ExcludeOptions, filt \in FilterOptions, total \in 0..MaxWorkerCommits :
        workers = [tracker \in BOOLEAN |-> AnalyzerStart(excl, filt, tracker, total)]
    /\ progress_queues = << >>
    /\ streams = << >>

\* Both loops take the next commit of the repository (lines 77-139).
SinkCommit(commit) ==
    /\ workers[TRUE].pc = "loop"
    /\ workers[TRUE].taken < workers[TRUE].total_commits
    /\ workers' = [tracker \in BOOLEAN |-> AnalyzeStep(workers[tracker], commit)]
    /\ UNCHANGED << progress_queues, streams >>

\* Both analyses return (lines 141-187).
SinkReturn(current_time) ==
    /\ workers[TRUE].pc = "loop"
    /\ workers[TRUE].taken = workers[TRUE].total_commits
    /\ workers' = [tracker \in BOOLEAN |-> AnalyzeReturn(workers[tracker], current_time)]
    /\ UNCHANGED << progress_queues, streams >>

\* ------------------------------ one analysis and the commits it was given

\* Merges: commit.parents has two parents; `diffs` is the diff against
\* parents[0], merge_diffs the diff against parents[1].
MergeCommits ==
    { [author |-> a, committed_date |-> 32 * SecondsPerDay, message |-> m,
       has_parents |-> TRUE, diffs |-> SubSeq(DiffEntries, 1, 1), stats |-> SomeStats,
       merge_diffs |-> SubSeq(DiffEntries, 2, 2)] :
        a \in AuthorNames, m \in Messages }

\* Root commits whose commit.stats can be read (git reports the stat of a
\* root commit against the empty tree).
RootCommitsWithStats ==
    { [author |-> a, committed_date |-> 32 * SecondsPerDay, message |-> m,
       has_parents |-> FALSE, diffs |-> << >>, stats |-> SomeStats] :
        a \in AuthorNames, m \in Messages }

\* The commits of the traversed repository: both authors, a time in each
\* month, with and without parent, diff and stat, merges and root commits.
TraversalCommits ==
    { c \in CommitRecords : c.committed_date # 27 * SecondsPerDay }
    \cup MergeCommits \cup RootCommitsWithStats

\* One GitAnalyzer instance, however constructed, about to loop over a
\* commits_list of up to MaxWorkerCommits commits (lines 56-74).
TraversalInit ==
    /\ \E excl \in ExcludeOptions, filt \in FilterOptions, tracker \in BOOLEAN :
        \E total \in 0..MaxWorkerCommits :
            workers = [w \in { 1 } |->
                          [an |-> AnalyzerStart(excl, filt, tracker, total),
                           commits |-> << >>]]
    /\ progress_queues = << >>
    /\ streams = << >>

\* The loop takes the next commit of commits_list (lines 77-139).
TraversalCommit(commit) ==
    /\ workers[1].an.pc = "loop"
    /\ workers[1].an.taken < workers[1].an.total_commits
    /\ workers' = [workers EXCEPT ![1].an = AnalyzeStep(@, commit),
                                  ![1].commits = Append(@, commit)]
    /\ UNCHANGED << progress_queues, streams >>

\* analyze() returns (lines 141-187).
TraversalReturn(current_time) ==
    /\ workers[1].an.pc = "loop"
    /\ workers[1].an.taken = workers[1].an.total_commits
    /\ workers' = [workers EXCEPT ![1].an = AnalyzeReturn(@, current_time)]
    /\ UNCHANGED << progress_queues, streams >>

\* ------------------------------------------ one analysis with exclude_files

\* exclude_files as the constructor can be given it: nothing; " b" and a
\* blank token; "A", which differs from the file "a" by its case; "s/b", a
\* token with a directory; "a" and "b\n", which between them name every file.
ExclusionOptions ==
    { << >>,
      << <<" ", "b">>, << >> >>,
      << <<"A">> >>,
      << <<"s", "/", "b">> >>,
      << <<"a">>, <<"b", "\n">> >> }

\* parent.diff(commit) for the commits of this repository: any of the three
\* files, in git's order.
ExclusionDiffs ==
    LET entries == Append(DiffEntries, BackslashDiffEntry)
        indices == [i \in 1..Len(entries) |-> i]
    IN  { [k \in 1..Len(SelectSeq(indices, LAMBDA i : i \in S)) |->
              entries[SelectSeq(indices, LAMBDA i : i \in S)[k]]] :
          S \in SUBSET (1..Len(entries)) }

ExclusionCommits ==
    { [author |-> a, committed_date |-> t, message |-> m, has_parents |-> TRUE,
       diffs |-> d, stats |-> SomeStats] :
        a \in AuthorNames, t \in { 26 * SecondsPerDay + 1000, 32 * SecondsPerDay },
        m \in Messages, d \in ExclusionDiffs }

\* One GitAnalyzer instance constructed with an exclude_files list, about to
\* loop over a commits_list of up to MaxWorkerCommits commits (lines 56-74).
ExclusionInit ==
    /\ \E excl \in ExclusionOptions, total \in 0..MaxWorkerCommits :
        workers = [w \in { 1 } |->
                      [an |-> AnalyzerStart(excl, << >>, FALSE, total),
                       commits |-> << >>]]
    /\ progress_queues = << >>
    /\ streams = << >>

\* ------------------------------ a session's analysis and its progress stream

\* Line 205: tracker.update("init", 0, 100, "開始分析...")
InitUpdate == ProgressUpdate("init", 0, 100, "starting")

\* Line 208: tracker.update("code_analysis", 10, 100, "正在分析程式碼...")
CodeStartedUpdate == ProgressUpdate("code_analysis", 10, 100, "analysing code")

\* Line 243: tracker.update("error", 0, 100, f"分析失敗：{str(e)}")
ErrorUpdate == ProgressUpdate("error", 0, 100, "analysis failed")

\* The tracker.update call a run_analysis_sync call is at, when it is at one.
UpdateAt(at) ==
    CASE at = "init" -> InitUpdate
      [] at = "code_analysis" -> CodeStartedUpdate
      [] at = "error" -> ErrorUpdate

\* Where run_analysis_sync goes on after the tracker.update it was at: to the
\* next update, to the construction of the CodeAnalyzer, or out of the
\* except clause with `raise` (line 244).
AfterUpdate(at) ==
    CASE at = "init" -> "code_analysis"
      [] at = "code_analysis" -> "construct"
      [] at = "error" -> "raised"

\* Line 115 with the test for "completed" alone.
IsTerminalStage_CompletedOnly(progress) == progress.stage = "completed"

\* Line 115: progress.stage == "completed" or progress.stage == "error"
IsTerminalStage(progress) == progress.stage = "completed" \/ progress.stage = "error"

\* No request has been made for any session: nothing is in progress_queues.
StreamInit ==
    /\ workers = [id \in SessionIds |->
                     [at |-> "none", updates |-> << >>, callback |-> << >>,
                      response |-> "none"]]
    /\ progress_queues = << >>
    /\ streams = [id \in SessionIds |-> [pc |-> "none", yielded |-> << >>]]

\* `progress_queues[session_id] = Queue()` when the session has no queue
\* (lines 91-92 and 263-264).
EnsureQueue(queues, session_id) ==
    IF session_id \in DOMAIN queues THEN queues
    ELSE [id \in DOMAIN queues \cup { session_id } |->
             IF id = session_id THEN << >> ELSE queues[id]]

\* `del progress_queues[session_id]` when the session has a queue (lines
\* 121-122).
DropQueue(queues, session_id) ==
    [id \in DOMAIN queues \ { session_id } |-> queues[id]]

\* analyze_all (lines 258-273) for a request with this session id: the
\* session's queue exists when run_analysis_sync is handed to the executor.
AnalyzeAllRequest(session_id) ==
    /\ workers[session_id].at = "none"
    /\ workers' = [workers EXCEPT ![session_id].at = "init"]
    /\ progress_queues' = EnsureQueue(progress_queues, session_id)
    /\ UNCHANGED streams

\* ProgressTracker.update (progress_tracker.py lines 34-57) called at lines
\* 205, 208 or 243, up to the test of line 198 in progress_callback: the
\* update is appended to tracker.updates and, when the session has a queue,
\* the callback goes on to put it; else the update is dropped.
WorkerUpdate(session_id) ==
    LET me == workers[session_id]
    IN  /\ me.at \in { "init", "code_analysis", "error" }
        /\ me.callback = << >>
        /\ workers' =
            [workers EXCEPT
                ![session_id].updates = Append(@, UpdateAt(me.at)),
                ![session_id].callback =
                    IF session_id # NoSession /\ session_id \in DOMAIN progress_queues
                    THEN << UpdateAt(me.at) >> ELSE << >>,
                ![session_id].at =
                    IF session_id # NoSession /\ session_id \in DOMAIN progress_queues
                    THEN @ ELSE AfterUpdate(@)]
        /\ UNCHANGED << progress_queues, streams >>

\* Line 199: progress_queues[session_id].put(progress).  Were the queue gone
\* since the test of line 198, the subscript would raise KeyError.
WorkerPut(session_id) ==
    LET me == workers[session_id]
    IN  /\ me.callback # << >>
        /\ IF session_id \in DOMAIN progress_queues
           THEN /\ progress_queues' =
                    [progress_queues EXCEPT ![session_id] = @ \o me.callback]
                /\ workers' = [workers EXCEPT ![session_id].callback = << >>,
                                              ![session_id].at = AfterUpdate(@)]
           ELSE /\ workers' = [workers EXCEPT ![session_id].callback = << >>,
                                              ![session_id].at = "key_error"]
                /\ UNCHANGED progress_queues
        /\ UNCHANGED streams

\* Lines 209-214: CodeAnalyzer(..., progress_tracker=tracker).  The
\* constructor (code_analyzer.py lines 26-27) has no progress_tracker
\* parameter, so the call raises TypeError, which `except Exception` (line
\* 242) catches: the next thing run_analysis_sync does is report the error.
WorkerConstructCodeAnalyzer(session_id) ==
    /\ workers[session_id].at = "construct"
    /\ workers' = [workers EXCEPT ![session_id].at = "error"]
    /\ UNCHANGED << progress_queues, streams >>

\* analyze_all once run_in_executor's future has raised (lines 268-273):
\* `except Exception` answers HTTPException(500) with the error's text
\* (lines 281-282).  The TypeError is no ValueError, so line 279 is passed.
AnalyzeAllRespond(session_id) ==
    /\ workers[session_id].at = "raised"
    /\ workers[session_id].response = "none"
    /\ workers' = [workers EXCEPT ![session_id].response = "http_500"]
    /\ UNCHANGED << progress_queues, streams >>

\* progress_stream's event_generator up to its loop (lines 89-94): the
\* session's queue is created when there is none.
StreamOpen(session_id) ==
    /\ streams[session_id].pc = "none"
    /\ streams' = [streams EXCEPT ![session_id].pc = "polling"]
    /\ progress_queues' = EnsureQueue(progress_queues, session_id)
    /\ UNCHANGED workers

\* Lines 97-112: the queue is not empty, so the generator takes its first
\* update and yields it.  (On an empty queue it sleeps and tests again.)
\* `queue` is the object found at line 94; the only `del` of the service is
\* this generator's own, so it is still the session's queue.
StreamYield(session_id) ==
    /\ streams[session_id].pc = "polling"
    /\ session_id \in DOMAIN progress_queues
    /\ progress_queues[session_id] # << >>
    /\ streams' = [streams EXCEPT
                      ![session_id].pc = "yielded",
                      ![session_id].yielded = Append(@, Head(progress_queues[session_id]))]
    /\ progress_queues' = [progress_queues EXCEPT ![session_id] = Tail(@)]
    /\ UNCHANGED workers

\* Lines 114-118, when the generator is resumed after its yield: it leaves
\* the loop after a terminal update, and else sleeps and polls again.
StreamResume(session_id) ==
    LET me == streams[session_id]
    IN  /\ me.pc = "yielded"
        /\ streams' = [streams EXCEPT
                          ![session_id].pc =
                              IF IsTerminalStage(me.yielded[Len(me.yielded)])
                              THEN "closing" ELSE "polling"]
        /\ UNCHANGED << workers, progress_queues >>

\* Lines 119-122: the finally clause removes the session's queue.
StreamClose(session_id) ==
    /\ streams[session_id].pc = "closing"
    /\ streams' = [streams EXCEPT ![session_id].pc = "ended"]
    /\ progress_queues' =
        IF session_id \in DOMAIN progress_queues
        THEN DropQueue(progress_queues, session_id) ELSE progress_queues
    /\ UNCHANGED workers

\* ---------------------------------------------------- AuthorQualityScorer

\* data.get(key, default)
Get(data, key, default) == IF key \in DOMAIN data THEN data[key] ELSE default

\* Lines 70-80 with `1.0 < avg_files` for the first band.
AvgFilesPoints_OpenAtOne(data) ==
    LET avg_files == Get(data, "avg_files_per_commit", 0)
    IN  IF 100 < avg_files /\ avg_files <= 300 THEN 20
        ELSE IF 300 < avg_files /\ avg_files <= 600 THEN 18
        ELSE IF (50 <= avg_files /\ avg_files < 100) \/ (600 < avg_files /\ avg_files <= 1000)
        THEN 15
        ELSE IF 1000 < avg_files /\ avg_files <= 1500 THEN 10
        ELSE 5

\* Lines 70-80: the points for avg_files_per_commit (in hundredths).
AvgFilesPoints(data) ==
    LET avg_files == Get(data, "avg_files_per_commit", 0)
    IN  IF 100 <= avg_files /\ avg_files <= 300 THEN 20
        ELSE IF 300 < avg_files /\ avg_files <= 600 THEN 18
        ELSE IF (50 <= avg_files /\ avg_files < 100) \/ (600 < avg_files /\ avg_files <= 1000)
        THEN 15
        ELSE IF 1000 < avg_files /\ avg_files <= 1500 THEN 10
        ELSE 5

\* Lines 84-90: the points for days_since_last_commit (in tenths).
LastCommitPoints(data) ==
    LET days_since_last == Get(data, "days_since_last_commit", 9990)
    IN  IF days_since_last <= 300 THEN 5
        ELSE IF days_since_last <= 900 THEN 3
        ELSE 1

\* Lines 93-99: the points for avg_message_length (in tenths).
MessagePoints(data) ==
    LET avg_msg_length == Get(data, "avg_message_length", 0)
    IN  IF avg_msg_length >= 200 THEN 15
        ELSE IF avg_msg_length >= 100 THEN 11
        ELSE 5

\* _score_commit_behavior(data)
ScoreCommitBehavior(data) ==
    Min(AvgFilesPoints(data) + LastCommitPoints(data) + MessagePoints(data), 40)

\* Lines 116-126: the points for files_modified (scope).
FilesScopePoints(data) ==
    LET files_modified == Get(data, "files_modified", 0)
    IN  IF files_modified >= 50 THEN 8
        ELSE IF files_modified >= 30 THEN 7
        ELSE IF files_modified >= 15 THEN 5
        ELSE IF files_modified >= 5 THEN 3
        ELSE 1

\* Lines 129-139: the points for total_code_changes.
CodeChangePoints(data) ==
    LET total_changes == Get(data, "total_code_changes", 0)
    IN  IF total_changes >= 10000 THEN 7
        ELSE IF total_changes >= 5000 THEN 6
        ELSE IF total_changes >= 2000 THEN 4
        ELSE IF total_changes >= 500 THEN 2
        ELSE 1

\* Lines 143-153: the points for rapid_rework_ratio (in tenths).
ReworkPoints(data) ==
    LET rapid_rework_ratio == Get(data, "rapid_rework_ratio", 0)
    IN  IF rapid_rework_ratio <= 100 THEN 15
        ELSE IF rapid_rework_ratio <= 200 THEN 12
        ELSE IF rapid_rework_ratio <= 300 THEN 9
        ELSE IF rapid_rework_ratio <= 500 THEN 5
        ELSE 2

\* _score_quality_and_scope(data)
ScoreQualityAndScope(data) ==
    Min(FilesScopePoints(data) + CodeChangePoints(data) + ReworkPoints(data), 30)

\* Lines 170-178: the points for files_modified (activity).
FilesActivityPoints(data) ==
    LET files_modified == Get(data, "files_modified", 0)
    IN  IF files_modified >= 50 THEN 10
        ELSE IF files_modified >= 30 THEN 8
        ELSE IF files_modified >= 10 THEN 6
        ELSE 3

\* Lines 181-189: the points for active_days (in tenths).
ActiveDaysPoints(data) ==
    LET active_days == Get(data, "active_days", 0)
    IN  IF active_days >= 1800 THEN 10
        ELSE IF active_days >= 900 THEN 8
        ELSE IF active_days >= 300 THEN 6
        ELSE 3

\* Lines 192-200: the points for contribution_ratio (in tenths).
ContributionPoints(data) ==
    LET contribution_ratio == Get(data, "contribution_ratio", 0)
    IN  IF contribution_ratio >= 300 THEN 10
        ELSE IF contribution_ratio >= 150 THEN 8
        ELSE IF contribution_ratio >= 50 THEN 6
        ELSE 3

\* _score_activity(data)
ScoreActivity(data) ==
    Min(FilesActivityPoints(data) + ActiveDaysPoints(data) + ContributionPoints(data), 30)

\* _determine_grade with `>` for `>=`.
DetermineGrade_Exclusive(total_score) ==
    IF total_score > 90 THEN "S"
    ELSE IF total_score > 80 THEN "A"
    ELSE IF total_score > 70 THEN "B"
    ELSE IF total_score > 60 THEN "C"
    ELSE "D"

\* _determine_grade(total_score), total_score in points
DetermineGrade(total_score) ==
    IF total_score >= 90 THEN "S"
    ELSE IF total_score >= 80 THEN "A"
    ELSE IF total_score >= 70 THEN "B"
    ELSE IF total_score >= 60 THEN "C"
    ELSE "D"

\* Lines 28-49 with a total that leaves the activity score out.
ScoredAuthor_TotalOmitsActivity(author, data) ==
    LET commit_behavior_score == ScoreCommitBehavior(data)
        quality_and_scope_score == ScoreQualityAndScope(data)
        activity_score == ScoreActivity(data)
        total_score == commit_behavior_score + quality_and_scope_score
    IN  [author |-> author,
         total_score |-> PyRound(total_score * 10, 1),
         grade |-> DetermineGrade(total_score),
         scores |-> [commit_behavior |-> PyRound(commit_behavior_score * 10, 1),
                     quality_and_scope |-> PyRound(quality_and_scope_score * 10, 1),
                     activity |-> PyRound(activity_score * 10, 1)],
         metrics |-> data]

\* Lines 28-49: the entry calculate_scores appends for one author.  The
\* scores it reports are rounded to one decimal: they are in tenths of a point.
ScoredAuthor(author, data) ==
    LET commit_behavior_score == ScoreCommitBehavior(data)
        quality_and_scope_score == ScoreQualityAndScope(data)
        activity_score == ScoreActivity(data)
        total_score == commit_behavior_score + quality_and_scope_score + activity_score
    IN  [author |-> author,
         total_score |-> PyRound(total_score * 10, 1),
         grade |-> DetermineGrade(total_score),
         scores |-> [commit_behavior |-> PyRound(commit_behavior_score * 10, 1),
                     quality_and_scope |-> PyRound(quality_and_scope_score * 10, 1),
                     activity |-> PyRound(activity_score * 10, 1)],
         metrics |-> data]

\* Line 52 as an ascending sort whose result is then reversed: authors of
\* equal total come out in the reverse of their order.
SortScoredAuthors_ReversedAscending(scored_authors) ==
    LET n == Len(scored_authors)
        ix == SortedIndices([i \in 1..n |-> scored_authors[i].total_score])
    IN  [r \in 1..n |-> scored_authors[ix[n + 1 - r]]]

\* Line 52: scored_authors.sort(key=lambda x: x['total_score'], reverse=True)
SortScoredAuthors(scored_authors) ==
    LET ix == SortedIndicesReverse([i \in 1..Len(scored_authors) |->
                                        scored_authors[i].total_score])
    IN  [r \in 1..Len(scored_authors) |-> scored_authors[ix[r]]]

\* The metrics bundles calculate_scores is given: for each metric the scorer
\* reads, the values on the edges of its bands (avg_files_per_commit in
\* hundredths, the one-decimal metrics in tenths), and a bundle with no key,
\* for which every data.get falls back on its default.
AvgFilesValues == { 0, 49, 50, 99, 100, 200, 300, 301, 600, 601, 1000, 1001, 1500, 1501 }
DaysSinceValues == { 300, 900, 901 }
MessageLengthValues == { 99, 100, 200 }
FilesModifiedValues == { 4, 5, 10, 15, 30, 50 }
CodeChangesValues == { 499, 500, 2000, 5000, 10000 }
ReworkRatioValues == { 100, 200, 300, 500, 501 }
ActiveDaysValues == { 299, 300, 900, 1800 }
ContributionValues == { 49, 50, 150, 300 }

EmptyBundle == [k \in {} |-> 0]

MetricsBundles ==
    [avg_files_per_commit : AvgFilesValues,
     days_since_last_commit : DaysSinceValues,
     avg_message_length : MessageLengthValues,
     files_modified : FilesModifiedValues,
     total_code_changes : CodeChangesValues,
     rapid_rework_ratio : ReworkRatioValues,
     active_days : ActiveDaysValues,
     contribution_ratio : ContributionValues]
    \cup { EmptyBundle }

\* Bundles for a dict of several authors: two of them differ and score the
\* same total (20 + 3 and 18 + 5 points for the first two metrics), the
\* others score more, or less.
RankingBundles ==
    [avg_files_per_commit : { 200, 400 },
     days_since_last_commit : { 300, 900 },
     avg_message_length : { 200 },
     files_modified : { 15 },
     total_code_changes : { 2000 },
     rapid_rework_ratio : { 200 },
     active_days : { 300 },
     contribution_ratio : { 150 }]
    \cup { EmptyBundle }

\* The authors of an author_quality_data dict, at most.
MaxAuthors == 3

ScoringIdle == [pc |-> "idle"]

\* calculate_scores called with a dict of n authors: before its loop.
ScoringStart(n) == [pc |-> "loop", todo |-> n, scored_authors |-> << >>]

\* Line 27: the loop over author_quality_data.items() has an author left.
HasAuthorToScore == scoring.pc = "loop" /\ scoring.todo > 0

\* Lines 27-49: one iteration of `for author, data in author_quality_data.items()`.
\* The k-th author of the dict is named by k.
ScoreAuthor(data) ==
    /\ HasAuthorToScore
    /\ scoring' =
        [scoring EXCEPT
            !.todo = @ - 1,
            !.scored_authors =
                Append(@, ScoredAuthor(Len(scoring.scored_authors) + 1, data))]

\* Lines 51-54: the sort and the return.
ReturnScores ==
    /\ scoring.pc = "loop"
    /\ scoring.todo = 0
    /\ scoring' =
        [scoring EXCEPT
            !.pc = "returned",
            !.scored_authors = SortScoredAuthors(scoring.scored_authors)]

\* ----------------------------------- the tallies' functions on their own

\* The paths of a file_changes dict, in the order the dict got them.
TallyPaths == << <<"a">>, <<"b">>, <<"c">>, <<"d">>, <<"e">>, <<"f">>, <<"g">> >>

\* How many distinct files a file_changes dict holds, at most.
MaxFiles == 5

\* A file_changes dict of n files whose counts are drawn from `counts`.
TallyDicts(n, counts) ==
    { [order |-> SubSeq(TallyPaths, 1, n), changes |-> f] :
        f \in [{ TallyPaths[i] : i \in 1..n } -> counts] }

TallyIdle == [pc |-> "idle"]

\* Change counts on both sides of every edge of the distribution's buckets.
DistributionCounts == { 1, 5, 6, 15, 16, 30, 31, 40 }

\* The files a dict of the distribution's specification holds, at most.
MaxDistributionFiles == 4

\* Change counts for the hotspot ranking, ties among them.
HotspotCounts == { 1, 2, 3, 5, 40 }

\* _get_change_distribution(file_changes) is about to be called.
DistributionInit ==
    \E n \in 0..MaxDistributionFiles : \E d \in TallyDicts(n, DistributionCounts) :
        tally = [pc |-> "distribution", order |-> d.order, changes |-> d.changes]

\* Lines 199-216.
ChangeDistribution ==
    /\ tally.pc = "distribution"
    /\ tally' = [pc |-> "distributed", order |-> tally.order, changes |-> tally.changes,
                 distribution |-> GetChangeDistribution(tally.changes, tally.order)]

\* Lines 400-406 are about to run for an author: all_file_changes is a dict
\* of up to MaxFiles files.
HotspotInit ==
    \E n \in 0..MaxFiles : \E d \in TallyDicts(n, HotspotCounts) :
        tally = [pc |-> "hotspot", order |-> d.order, changes |-> d.changes]

\* Change counts for the size of the hotspot set, ties among them.
RankCounts == { 1, 2, 3 }

\* The files of all_file_changes when the size of the hotspot set is looked
\* at, at most: beyond five files, 20% of them is not a whole number.
MaxRankedFiles == 6

\* Lines 400-401 are about to run: all_file_changes is a dict of up to
\* MaxRankedFiles files.
RankInit ==
    \E n \in 0..MaxRankedFiles : \E d \in TallyDicts(n, RankCounts) :
        tally = [pc |-> "hotspot", order |-> d.order, changes |-> d.changes]

\* Lines 400-406 for an author who touched author_files, any of the files of
\* all_file_changes (the author's changes are part of the global ones).
Hotspot(author_files) ==
    /\ tally.pc = "hotspot"
    /\ tally' = [pc |-> "participation", order |-> tally.order,
                 changes |-> tally.changes, author_files |-> author_files,
                 top_hotspot_files |-> TopHotspotFiles(tally.changes, tally.order),
                 hotspot_participation |->
                     HotspotParticipation(author_files, tally.changes, tally.order)]

\* ---------------------------------------------------------- specifications

\* analyze() on a repository.
Init == AnalyzerInit /\ tally = TallyIdle /\ scoring = ScoringIdle /\ ServiceIdle

Next ==
    \/ /\ \E commit \in CommitRecords : AnalyzeCommit(commit)
       /\ UNCHANGED << tally, scoring, serviceVars >>
    \/ /\ \E current_time \in CurrentTimes : Return(current_time)
       /\ UNCHANGED << tally, scoring, serviceVars >>

Spec == Init /\ [][Next]_vars

\* The analyzer's state when analyze() is not running.
AnalyzerIdle ==
    /\ exclude_files = << >>
    /\ filter_authors = << >>
    /\ progress_tracker = FALSE
    /\ total_commits = 0
    /\ updates = << >>
    /\ pc = "idle"
    /\ taken = 0
    /\ file_changes = EmptyTally
    /\ file_order = << >>
    /\ commit_count = 0
    /\ authors = {}
    /\ author_commits = [a \in AuthorNames |-> 0]
    /\ author_timeline = [a \in AuthorNames |-> [m \in MonthKeys |-> 0]]
    /\ total_insertions = 0
    /\ total_deletions = 0
    /\ author_commit_details = [a \in AuthorNames |-> << >>]
    /\ author_order = << >>
    /\ author_file_changes = [a \in AuthorNames |-> EmptyTally]
    /\ author_file_timeline = [a \in AuthorNames |-> [p \in FilePaths |-> << >>]]
    /\ result = [returned |-> FALSE]

\* calculate_scores on the metrics bundle of one author.
ScorerInit == AnalyzerIdle /\ ServiceIdle /\ tally = TallyIdle /\ scoring = ScoringStart(1)

ScorerNext ==
    \/ /\ HasAuthorToScore
       /\ \E data \in MetricsBundles : ScoreAuthor(data)
       /\ UNCHANGED << analyzerVars, tally, serviceVars >>
    \/ /\ ReturnScores
       /\ UNCHANGED << analyzerVars, tally, serviceVars >>

SpecScorer == ScorerInit /\ [][ScorerNext]_vars

\* calculate_scores on a dict of up to MaxAuthors authors.
RankingInit ==
    /\ AnalyzerIdle
    /\ ServiceIdle
    /\ tally = TallyIdle
    /\ \E n \in 0..MaxAuthors : scoring = ScoringStart(n)

RankingNext ==
    \/ /\ HasAuthorToScore
       /\ \E data \in RankingBundles : ScoreAuthor(data)
       /\ UNCHANGED << analyzerVars, tally, serviceVars >>
    \/ /\ ReturnScores
       /\ UNCHANGED << analyzerVars, tally, serviceVars >>

SpecRanking == RankingInit /\ [][RankingNext]_vars

\* Two analyses in two threads, the iterations of their loops interleaved.
ConcurrentSpecInit ==
    /\ AnalyzerIdle
    /\ tally = TallyIdle
    /\ scoring = ScoringIdle
    /\ ConcurrentInit

ConcurrentNext ==
    \/ /\ \E w \in InstanceIds, config \in ConcurrentConfigs, total \in 0..MaxWorkerCommits :
            ConcurrentStart(w, config.exclude_files, config.filter_authors, total)
       /\ UNCHANGED << analyzerVars, tally, scoring >>
    \/ /\ \E w \in InstanceIds, commit \in ConcurrentCommits : ConcurrentCommit(w, commit)
       /\ UNCHANGED << analyzerVars, tally, scoring >>
    \/ /\ \E w \in InstanceIds, current_time \in CurrentTimes :
            ConcurrentReturn(w, current_time)
       /\ UNCHANGED << analyzerVars, tally, scoring >>

SpecConcurrent == ConcurrentSpecInit /\ [][ConcurrentNext]_vars

\* The same analysis with and without a progress tracker, step by step.
SinkSpecInit ==
    /\ AnalyzerIdle
    /\ tally = TallyIdle
    /\ scoring = ScoringIdle
    /\ SinkInit

SinkNext ==
    \/ /\ \E commit \in CommitRecords : SinkCommit(commit)
       /\ UNCHANGED << analyzerVars, tally, scoring >>
    \/ /\ \E current_time \in CurrentTimes : SinkReturn(current_time)
       /\ UNCHANGED << analyzerVars, tally, scoring >>

SpecSink == SinkSpecInit /\ [][SinkNext]_vars

\* The hotspot computation on larger dicts, for an author who touched the
\* first k files of the dict.
RankSpecInit == AnalyzerIdle /\ ServiceIdle /\ scoring = ScoringIdle /\ RankInit

RankNext ==
    /\ tally.pc = "hotspot"
    /\ \E k \in 0..Len(tally.order) : Hotspot({ tally.order[i] : i \in 1..k })
    /\ UNCHANGED << analyzerVars, scoring, serviceVars >>

SpecRank == RankSpecInit /\ [][RankNext]_vars

\* analyze() on a repository whose commits are kept beside the aggregates.
TraversalSpecInit ==
    /\ AnalyzerIdle
    /\ tally = TallyIdle
    /\ scoring = ScoringIdle
    /\ TraversalInit

TraversalNext ==
    \/ /\ \E commit \in TraversalCommits : TraversalCommit(commit)
       /\ UNCHANGED << analyzerVars, tally, scoring >>
    \/ /\ \E current_time \in CurrentTimes : TraversalReturn(current_time)
       /\ UNCHANGED << analyzerVars, tally, scoring >>

SpecTraversal == TraversalSpecInit /\ [][TraversalNext]_vars

\* analyze() of an analyzer with exclude_files.
ExclusionSpecInit ==
    /\ AnalyzerIdle
    /\ tally = TallyIdle
    /\ scoring = ScoringIdle
    /\ ExclusionInit

ExclusionNext ==
    \/ /\ \E commit \in ExclusionCommits : TraversalCommit(commit)
       /\ UNCHANGED << analyzerVars, tally, scoring >>
    \/ /\ \E current_time \in CurrentTimes : TraversalReturn(current_time)
       /\ UNCHANGED << analyzerVars, tally, scoring >>

SpecExclusion == ExclusionSpecInit /\ [][ExclusionNext]_vars

\* The analyses of two sessions and their progress streams, every step of one
\* interleaved with the steps of the others.
StreamSpecInit ==
    /\ AnalyzerIdle
    /\ tally = TallyIdle
    /\ scoring = ScoringIdle
    /\ StreamInit

\* The steps of a session's event_generator, which the event loop resumes
\* after each yield and each sleep for as long as it has not ended.
StreamStep(session_id) ==
    /\ \/ StreamYield(session_id)
       \/ StreamResume(session_id)
       \/ StreamClose(session_id)
    /\ UNCHANGED << analyzerVars, tally, scoring >>

StreamNext ==
    \/ /\ \E id \in SessionIds : AnalyzeAllRequest(id)
       /\ UNCHANGED << analyzerVars, tally, scoring >>
    \/ /\ \E id \in SessionIds : WorkerUpdate(id)
       /\ UNCHANGED << analyzerVars, tally, scoring >>
    \/ /\ \E id \in SessionIds : WorkerPut(id)
       /\ UNCHANGED << analyzerVars, tally, scoring >>
    \/ /\ \E id \in SessionIds : WorkerConstructCodeAnalyzer(id)
       /\ UNCHANGED << analyzerVars, tally, scoring >>
    \/ /\ \E id \in SessionIds : AnalyzeAllRespond(id)
       /\ UNCHANGED << analyzerVars, tally, scoring >>
    \/ /\ \E id \in SessionIds : StreamOpen(id)
       /\ UNCHANGED << analyzerVars, tally, scoring >>
    \/ \E id \in SessionIds : StreamStep(id)

\* The event loop keeps resuming a generator that can go on.
SpecStream ==
    /\ StreamSpecInit
    /\ [][StreamNext]_vars
    /\ \A id \in SessionIds : WF_vars(StreamStep(id))

\* _get_change_distribution on a file_changes dict.
DistributionSpecInit == AnalyzerIdle /\ ServiceIdle /\ scoring = ScoringIdle /\ DistributionInit

DistributionNext == ChangeDistribution /\ UNCHANGED << analyzerVars, scoring, serviceVars >>

SpecDistribution == DistributionSpecInit /\ [][DistributionNext]_vars

\* The hotspot computation on a file_changes dict and an author's files.
HotspotSpecInit == AnalyzerIdle /\ ServiceIdle /\ scoring = ScoringIdle /\ HotspotInit

HotspotNext ==
    /\ tally.pc = "hotspot"
    /\ \E author_files \in SUBSET { tally.order[i] : i \in 1..Len(tally.order) } :
           Hotspot(author_files)
    /\ UNCHANGED << analyzerVars, scoring, serviceVars >>

SpecHotspot == HotspotSpecInit /\ [][HotspotNext]_vars

\* ------------------------------------------------------------------ claims

\* The authors analyze() has an entry of author_quality_data for.
ScoredAuthors == IF pc = "done" THEN DOMAIN result.author_quality_data.data ELSE {}

QualityOf(a) == result.author_quality_data.data[a]

SetMax(S) == CHOOSE x \in S : \A y \in S : y <= x
SetMin(S) == CHOOSE x \in S : \A y \in S : x <= y

AbsDiff(x, y) == IF x >= y THEN x - y ELSE y - x

\* The entries calculate_scores has built so far, or has returned.
ScoreResults ==
    IF scoring.pc \in {"loop", "returned"}
    THEN { scoring.scored_authors[i] : i \in 1..Len(scoring.scored_authors) }
    ELSE {}

\* C1: for every author and every metrics bundle given to calculate_scores,
\* the reported total_score is commit_behavior + quality_and_scope + activity,
\* and commit_behavior lies in 0..40, quality_and_scope in 0..30, activity in
\* 0..30, hence the total in 0..100 (reported scores are in tenths of a point).
C1_TotalIsSumOfBoundedScores ==
    \A r \in ScoreResults :
        /\ r.total_score
            = r.scores.commit_behavior + r.scores.quality_and_scope + r.scores.activity
        /\ r.scores.commit_behavior \in 0..400
        /\ r.scores.quality_and_scope \in 0..300
        /\ r.scores.activity \in 0..300
        /\ r.total_score \in 0..1000

\* calculate_scores has returned an author whose three scores are at their
\* ceilings, and whose total is their sum.
C1_Witness ==
    /\ scoring.pc = "returned"
    /\ \E r \in ScoreResults :
        /\ r.scores.commit_behavior = 400
        /\ r.scores.quality_and_scope = 300
        /\ r.scores.activity = 300
        /\ r.total_score = 1000

\* The grade the specification gives for a total in tenths of a point.
C2_Grade(total) ==
    IF total >= 900 THEN "S"
    ELSE IF 800 <= total /\ total < 900 THEN "A"
    ELSE IF 700 <= total /\ total < 800 THEN "B"
    ELSE IF 600 <= total /\ total < 700 THEN "C"
    ELSE "D"

\* C2: the grade is a function of the total alone with inclusive lower
\* bounds (>= 90 S, 80..<90 A, 70..<80 B, 60..<70 C, below 60 D), and every
\* scored author's grade is the one it gives for the reported total_score.
C2_GradeOfReportedTotal ==
    \A r \in ScoreResults : r.grade = C2_Grade(r.total_score)

\* calculate_scores has returned an author whose total is exactly 90 with
\* grade S.
C2_Witness ==
    /\ scoring.pc = "returned"
    /\ \E r \in ScoreResults : r.total_score = 900 /\ r.grade = "S"

\* C3: after any prefix of the traversal, for every author the sum of the
\* author's per-file change counts equals the sum of files_count over the
\* author's commit details, and every retained commit, with or without
\* files, is one commit detail and one unit of the author's commit count.
C3_FileTalliesMatchCommitDetails ==
    \A a \in AuthorNames :
        LET details == author_commit_details[a]
        IN  /\ SumOver(author_file_changes[a], FilePaths)
                 = SumSeq([i \in 1..Len(details) |-> details[i].files_count])
            /\ author_commits[a] = Len(details)

\* C3's case: mid-traversal, an author with a commit of no file and a commit
\* of two files, under an exclusion list.
C3_Witness ==
    /\ pc = "loop" /\ taken < total_commits
    /\ \E a \in AuthorNames :
         \E i, j \in 1..Len(author_commit_details[a]) :
            /\ author_commit_details[a][i].files_count = 0
            /\ author_commit_details[a][j].files_count = 2
            /\ author_commits[a] >= 2

\* C4: after any prefix of the traversal, the global change count of a path
\* is at least every single author's count for that path.
C4_GlobalCountCoversAuthorCount ==
    \A p \in FilePaths : \A a \in AuthorNames :
        file_changes[p] >= author_file_changes[a][p]

\* C4's case: a path two authors changed, one of them twice.
C4_Witness ==
    \E p \in FilePaths : \E a, b \in AuthorNames :
        /\ a # b
        /\ author_file_changes[a][p] = 2
        /\ author_file_changes[b][p] = 1
        /\ file_changes[p] = 3

\* C5: an author with exactly one retained commit gets active_days 1 and
\* avg_commit_interval 1; every author's active_days is max(1, (latest commit
\* time - earliest commit time) / 86400), as reported to one decimal,
\* whatever order the commits were traversed in; and every author with a
\* retained commit gets an entry (nothing is raised on the way).
C5_ActiveDays ==
    pc = "done" =>
        /\ ScoredAuthors = { a \in AuthorNames : author_commit_details[a] # << >> }
        /\ \A a \in ScoredAuthors :
             LET details == author_commit_details[a]
                 times == { details[i].timestamp : i \in 1..Len(details) }
                 span == SetMax(times) - SetMin(times)
             IN  /\ QualityOf(a).active_days
                      = PyRound(10 * Max(SecondsPerDay, span), SecondsPerDay)
                 /\ Len(details) = 1 =>
                      /\ QualityOf(a).active_days = 10
                      /\ QualityOf(a).avg_commit_interval = 100

\* C5's case: one author with a single commit, another whose commits were
\* traversed newest first and lie more than a day apart.
C5_Witness ==
    /\ pc = "done"
    /\ \E a, b \in ScoredAuthors :
         /\ Len(author_commit_details[a]) = 1
         /\ Len(author_commit_details[b]) = 2
         /\ author_commit_details[b][1].timestamp
              > author_commit_details[b][2].timestamp + SecondsPerDay
         /\ QualityOf(b).active_days > 10

\* C6: an author whose every touched file was modified exactly once has
\* rapid_rework_ratio 0 and rapid_rework_count 0.
C6_NoReworkWhenEveryFileTouchedOnce ==
    \A a \in ScoredAuthors :
        (\A p \in FilePaths : author_file_changes[a][p] <= 1) =>
            /\ QualityOf(a).rapid_rework_ratio = 0
            /\ QualityOf(a).rapid_rework_count = 0

\* C6's case: an author with three commits and two files, each file modified
\* once.
C6_Witness ==
    \E a \in ScoredAuthors :
        /\ Len(author_commit_details[a]) = 3
        /\ \A i \in 1..Len(DiffEntries) :
            author_file_changes[a][DiffFilePath(DiffEntries[i])] = 1
        /\ QualityOf(a).rapid_rework_ratio = 0

\* The gaps, in seconds, between consecutive modifications of one file once
\* its modification times are put in ascending order.
C7_Gaps(timeline) ==
    LET ts == SortedValues([i \in 1..Len(timeline) |-> timeline[i].timestamp])
    IN  [k \in 1..(Len(ts) - 1) |-> ts[k + 1] - ts[k]]

\* C7: every pair of consecutive time-sorted modifications of a file by an
\* author is one interval; it is a rapid rework exactly when its gap is at
\* most 5 days; rapid_rework_ratio is 100 * rapid / all intervals (to one
\* decimal), 0 without an interval.
C7_RapidReworkRatio ==
    \A a \in ScoredAuthors :
        LET tl == author_file_timeline[a]
            all == [p \in FilePaths |-> Len(C7_Gaps(tl[p]))]
            rapid == [p \in FilePaths |->
                        Cardinality({ k \in 1..Len(C7_Gaps(tl[p])) :
                            C7_Gaps(tl[p])[k] <= 5 * 86400 })]
            n_all == SumOver(all, FilePaths)
            n_rapid == SumOver(rapid, FilePaths)
        IN  /\ QualityOf(a).total_file_modifications = n_all
            /\ QualityOf(a).rapid_rework_count = n_rapid
            /\ QualityOf(a).rapid_rework_ratio
                 = IF n_all = 0 THEN 0 ELSE PyRound(1000 * n_rapid, n_all)

\* C7's case: three commits touching {a}, {a, b}, {a} in some order at three
\* different times, the last two exactly 5 days apart: 2 intervals, both
\* rapid, ratio 100.0.
C7_Witness ==
    \E a \in ScoredAuthors :
        /\ Len(author_file_timeline[a][<<"a">>]) = 3
        /\ Len(author_file_timeline[a][<<"s", "/", "b">>]) = 1
        /\ { author_file_timeline[a][<<"a">>][i].timestamp : i \in 1..3 } = CommitTimes
        /\ QualityOf(a).total_file_modifications = 2
        /\ QualityOf(a).rapid_rework_count = 2
        /\ QualityOf(a).rapid_rework_ratio = 1000

\* The global change map {a: 40, b: 5, c: 3, d: 2, e: 1}.
C8_ExampleMap ==
    /\ tally.order = SubSeq(TallyPaths, 1, 5)
    /\ tally.changes[<<"a">>] = 40
    /\ tally.changes[<<"b">>] = 5
    /\ tally.changes[<<"c">>] = 3
    /\ tally.changes[<<"d">>] = 2
    /\ tally.changes[<<"e">>] = 1

\* C8: hotspot_participation is 100 * (the author's touched files that are
\* in the hotspot set) / (the author's touched files), to one decimal, and 0
\* for an author with no file; with the map {a:40, b:5, c:3, d:2, e:1} the
\* hotspot set is {a}, an author of {b, c} gets 0 and an author of {a, b} 50.0.
C8_HotspotParticipation ==
    tally.pc = "participation" =>
        LET touched == Cardinality(tally.author_files)
            in_hotspot == Cardinality(tally.author_files \cap tally.top_hotspot_files)
        IN  /\ touched = 0 => tally.hotspot_participation = 0
            /\ touched > 0 =>
                /\ 2 * AbsDiff(tally.hotspot_participation * touched, 1000 * in_hotspot)
                    <= touched
                /\ tally.hotspot_participation \in 0..1000
            /\ C8_ExampleMap =>
                /\ tally.top_hotspot_files = { <<"a">> }
                /\ tally.author_files = { <<"b">>, <<"c">> }
                    => tally.hotspot_participation = 0
                /\ tally.author_files = { <<"a">>, <<"b">> }
                    => tally.hotspot_participation = 500

\* The example map with an author who touched a and b: half of the author's
\* files are hotspots.
C8_Witness ==
    /\ tally.pc = "participation"
    /\ C8_ExampleMap
    /\ tally.author_files = { <<"a">>, <<"b">> }
    /\ tally.top_hotspot_files = { <<"a">> }
    /\ tally.hotspot_participation = 500

\* The band table of the specification for avg_files_per_commit, v in
\* hundredths: the set of the awards whose band holds v.
C9_Awards(v) ==
    (IF 100 <= v /\ v <= 300 THEN {20} ELSE {})
    \cup (IF 300 < v /\ v <= 600 THEN {18} ELSE {})
    \cup (IF (50 <= v /\ v < 100) \/ (600 < v /\ v <= 1000) THEN {15} ELSE {})
    \cup (IF 1000 < v /\ v <= 1500 THEN {10} ELSE {})
    \cup (IF v < 50 \/ v > 1500 THEN {5} ELSE {})

\* C9: the points for avg_files_per_commit depend on that value alone, one
\* band holding every value (20 for 1..3, 18 for 3<..6, 15 for 0.5..<1 and
\* 6<..10, 10 for 10<..15, 5 otherwise): whatever the other metrics, the
\* commit-behavior score is that award plus the recency and message points,
\* and v = 2.0 contributes 20.
C9_AvgFilesBands ==
    \A r \in ScoreResults :
        LET v == Get(r.metrics, "avg_files_per_commit", 0)
            others == LastCommitPoints(r.metrics) + MessagePoints(r.metrics)
        IN  /\ Cardinality(C9_Awards(v)) = 1
            /\ C9_Awards(v) = { r.scores.commit_behavior \div 10 - others }
            /\ r.scores.commit_behavior % 10 = 0
            /\ v = 200 => r.scores.commit_behavior = 10 * (20 + others)

\* Two facts in one returned author: v = 1.0, the closed lower edge of the
\* best band, with the worst recency and message points, still scores 20 + 1 + 5.
C9_Witness ==
    /\ scoring.pc = "returned"
    /\ \E r \in ScoreResults :
        /\ r.metrics # EmptyBundle
        /\ r.metrics.avg_files_per_commit = 100
        /\ r.metrics.days_since_last_commit = 901
        /\ r.metrics.avg_message_length = 99
        /\ r.scores.commit_behavior = 260

\* The files of the dict whose change count lies in lo..hi.
C10_FilesWithin(lo, hi) ==
    { i \in 1..Len(tally.order) :
        lo <= tally.changes[tally.order[i]] /\ tally.changes[tally.order[i]] <= hi }

\* C10: the four buckets of _get_change_distribution (low 1-5, medium 6-15,
\* high 16-30, very_high above 30) sum to the number of distinct changed
\* files, each file counted in exactly one bucket.
C10_BucketsPartitionFiles ==
    tally.pc = "distributed" =>
        /\ tally.distribution.low + tally.distribution.medium
            + tally.distribution.high + tally.distribution.very_high
            = Len(tally.order)
        /\ tally.distribution.low = Cardinality(C10_FilesWithin(1, 5))
        /\ tally.distribution.medium = Cardinality(C10_FilesWithin(6, 15))
        /\ tally.distribution.high = Cardinality(C10_FilesWithin(16, 30))
        /\ tally.distribution.very_high
            = Len(tally.order) - Cardinality(C10_FilesWithin(1, 30))

\* A map of four files, one in each bucket, on the buckets' edges.
C10_Witness ==
    /\ tally.pc = "distributed"
    /\ Len(tally.order) = 4
    /\ { tally.changes[tally.order[i]] : i \in 1..4 } = { 5, 15, 30, 31 }
    /\ tally.distribution = [low |-> 1, medium |-> 1, high |-> 1, very_high |-> 1]

\* C11: calculate_scores returns one entry per input author (the k-th author
\* of the input is named k), ordered by total_score descending, and authors
\* of equal total_score keep the order the input had them in.
C11_StableDescendingRanking ==
    scoring.pc = "returned" =>
        LET ranked == scoring.scored_authors
            n == Len(ranked)
        IN  /\ scoring.todo = 0
            /\ { ranked[i].author : i \in 1..n } = 1..n
            /\ \A i \in 1..n : ranked[i] = ScoredAuthor(ranked[i].author, ranked[i].metrics)
            /\ \A i, j \in 1..n :
                i < j =>
                    \/ ranked[i].total_score > ranked[j].total_score
                    \/ /\ ranked[i].total_score = ranked[j].total_score
                       /\ ranked[i].author < ranked[j].author

\* Three authors returned: the third of the input is first, and the first
\* two, whose bundles differ and whose totals are equal, follow in their order.
C11_Witness ==
    /\ scoring.pc = "returned"
    /\ Len(scoring.scored_authors) = 3
    /\ scoring.scored_authors[1].author = 3
    /\ scoring.scored_authors[2].author = 1
    /\ scoring.scored_authors[3].author = 2
    /\ scoring.scored_authors[2].total_score = scoring.scored_authors[3].total_score
    /\ scoring.scored_authors[2].metrics # scoring.scored_authors[3].metrics
    /\ scoring.scored_authors[1].total_score > scoring.scored_authors[2].total_score

\* What thread w's analysis is when it runs alone on the commits thread w
\* has been given so far: the state of its loop, or what it has returned.
C12_Alone(w, current_time) ==
    LET me == workers[w]
        start == AnalyzerStart(me.an.exclude_files, me.an.filter_authors, TRUE,
                               me.an.total_commits)
        looped == AnalyzeAll(start, me.commits)
    IN  IF me.pc = "finished" THEN AnalyzeReturn(looped, current_time) ELSE looped

\* C12: two analyses running in two worker threads, each on its own
\* GitAnalyzer instance, do not interfere: under every interleaving of their
\* steps, the aggregates, the author maps and the result of each are the ones
\* it has when it runs alone on its commits.
C12_WorkersDoNotInterfere ==
    \A w \in DOMAIN workers :
        workers[w].pc # "created" =>
            \E current_time \in CurrentTimes :
                workers[w].an = C12_Alone(w, current_time)

\* Both analyses have returned, each has counted every commit of its
\* repository and told its tracker, and their file counts and results differ.
C12_Witness ==
    /\ workers # << >>
    /\ \A w \in InstanceIds :
        /\ workers[w].pc = "finished"
        /\ workers[w].an.commit_count = MaxWorkerCommits
        /\ workers[w].an.updates # << >>
    /\ workers[1].an.file_changes # workers[2].an.file_changes
    /\ workers[1].an.result # workers[2].an.result

\* Everything of an analysis but its tracker and what the tracker was told.
C13_Outcome(an) == [an EXCEPT !.progress_tracker = FALSE, !.updates = << >>]

\* C13: progress reporting does not affect the analysis: on the same commits,
\* filters and cap, analyze has the same aggregates and returns the same
\* result with a progress sink and without one, and nothing is reported to
\* an absent sink.
C13_ProgressSinkHasNoEffect ==
    workers # << >> =>
        /\ C13_Outcome(workers[TRUE]) = C13_Outcome(workers[FALSE])
        /\ workers[FALSE].updates = << >>
        /\ workers[FALSE].pc \in { "loop", "done" }

\* Both analyses have returned the same result with authors in it, and the
\* tracker of the one that has a tracker was told of the last commit.
C13_Witness ==
    /\ workers # << >>
    /\ workers[TRUE].pc = "done"
    /\ workers[FALSE].pc = "done"
    /\ workers[TRUE].result = workers[FALSE].result
    /\ workers[TRUE].result.summary.total_commits = MaxWorkerCommits
    /\ workers[TRUE].updates # << >>
    /\ workers[FALSE].updates = << >>

\* C14: degenerate inputs give zeros, not errors: with no retained commit
\* analyze returns zero counts and empty author data, and an author who
\* touched no file has file_concentration, hotspot_participation,
\* rapid_rework_ratio and avg_files_per_commit 0.
C14_DegenerateInputsGiveZeros ==
    pc = "done" =>
        /\ result.returned
        /\ commit_count = 0 =>
            /\ result.summary =
                [total_commits |-> 0, total_authors |-> 0, total_files_changed |-> 0,
                 total_insertions |-> 0, total_deletions |-> 0, authors |-> {}]
            /\ result.top_changed_files = << >>
            /\ result.change_distribution =
                [low |-> 0, medium |-> 0, high |-> 0, very_high |-> 0]
            /\ result.developer_activity = [months |-> << >>, authors |-> << >>]
            /\ result.author_quality_data.order = << >>
            /\ ScoredAuthors = {}
        /\ \A a \in ScoredAuthors :
            QualityOf(a).files_modified = 0 =>
                /\ QualityOf(a).file_concentration = 0
                /\ QualityOf(a).hotspot_participation = 0
                /\ QualityOf(a).rapid_rework_ratio = 0
                /\ QualityOf(a).avg_files_per_commit = 0

\* analyze has returned an author with commits and no touched file, while
\* another author touched files: the four ratios of the first are 0.
C14_Witness ==
    /\ pc = "done"
    /\ file_order # << >>
    /\ \E a \in ScoredAuthors :
        /\ QualityOf(a).total_commits > 0
        /\ QualityOf(a).files_modified = 0
        /\ QualityOf(a).file_concentration = 0
        /\ QualityOf(a).hotspot_participation = 0
        /\ QualityOf(a).rapid_rework_ratio = 0
        /\ QualityOf(a).avg_files_per_commit = 0

\* Every file of the hotspot set has been changed at least as often as
\* every file outside it.
C15_HotspotsRankHighest ==
    \A f \in tally.top_hotspot_files :
        \A g \in DOMAIN tally.changes \ tally.top_hotspot_files :
            tally.changes[f] >= tally.changes[g]

\* C15 as stated: for n >= 1 distinct globally-changed files the hotspot set
\* has exactly max(1, ceil(0.2 * n)) files, the files ranked highest by
\* global change count.
C15_HotspotSetSizeCeiling ==
    (tally.pc = "participation" /\ Len(tally.order) >= 1) =>
        /\ Cardinality(tally.top_hotspot_files) = Max(1, (Len(tally.order) + 4) \div 5)
        /\ C15_HotspotsRankHighest

\* C15 as amended: for n >= 1 distinct globally-changed files the hotspot
\* set has exactly max(1, floor(0.2 * n)) files, the files ranked highest by
\* global change count.
C15_HotspotSetSizeFloor ==
    (tally.pc = "participation" /\ Len(tally.order) >= 1) =>
        /\ Cardinality(tally.top_hotspot_files) = Max(1, Len(tally.order) \div 5)
        /\ C15_HotspotsRankHighest

\* Six files, two of them most changed: only one of the two is a hotspot.
C15_Witness ==
    /\ tally.pc = "participation"
    /\ Len(tally.order) = 6
    /\ Cardinality({ f \in DOMAIN tally.changes : tally.changes[f] = 3 }) = 2
    /\ Cardinality(tally.top_hotspot_files) = 1
    /\ \A f \in tally.top_hotspot_files : tally.changes[f] = 3

\* The aggregates of an analysis: commit count, author set, author commit
\* counts, monthly timeline, file counts, per-author file counts and
\* timelines, insertion and deletion totals, commit details.
TraversalAggregates(an) ==
    [commit_count |-> an.commit_count,
     authors |-> an.authors,
     author_commits |-> an.author_commits,
     author_timeline |-> an.author_timeline,
     file_changes |-> an.file_changes,
     file_order |-> an.file_order,
     author_file_changes |-> an.author_file_changes,
     author_file_timeline |-> an.author_file_timeline,
     total_insertions |-> an.total_insertions,
     total_deletions |-> an.total_deletions,
     author_commit_details |-> an.author_commit_details,
     author_order |-> an.author_order]

\* The commit's author equals one of the allowed names, case-insensitively,
\* after trimming.
C16_Allowed(filt, commit) ==
    \E i \in 1..Len(filt) : Lower(Strip(filt[i])) = Lower(Strip(commit.author))

\* C16: with an author allow-list, a commit whose author matches none of the
\* allowed names (case-insensitively, after trimming) changes no aggregate,
\* and every commit of a matching author is processed: the aggregates are
\* those of an analysis without allow-list of the matching commits alone.
C16_AllowListSkipsEntirely ==
    \A w \in DOMAIN workers :
        LET an == workers[w].an
            retained == SelectSeq(workers[w].commits,
                                  LAMBDA c : C16_Allowed(an.filter_authors, c))
            unfiltered == AnalyzerStart(an.exclude_files, << >>, FALSE, Len(retained))
        IN  an.filter_authors # << >> =>
                TraversalAggregates(an) = TraversalAggregates(AnalyzeAll(unfiltered, retained))

\* The allow-list " AL" is configured, a commit of bob and a commit of Al
\* that changes files have been taken: one commit is counted, Al's.
C16_Witness ==
    /\ workers # << >>
    /\ workers[1].an.filter_authors = << <<" ", "A", "L">> >>
    /\ Len(workers[1].commits) = 2
    /\ workers[1].commits[1].author = <<"b", "o", "b">>
    /\ workers[1].commits[2].author = <<"A", "l">>
    /\ workers[1].an.commit_count = 1
    /\ workers[1].an.authors = { <<"A", "l">> }
    /\ workers[1].an.file_order # << >>

\* The commits of the list that the analysis retains: all of them, or with
\* an allow-list those of the allowed authors.
RetainedCommits(w) ==
    LET filt == workers[w].an.filter_authors
    IN  IF filt = << >> THEN workers[w].commits
        ELSE SelectSeq(workers[w].commits, LAMBDA c : C16_Allowed(filt, c))

\* How many entries of the commit's diff against its first parent name the
\* path p, when p is not excluded.
C17_FirstParentChanges(commit, excl, p) ==
    IF commit.has_parents /\ ~IsExcludedFile(excl, p)
    THEN Cardinality({ i \in 1..Len(commit.diffs) : DiffFilePath(commit.diffs[i]) = p })
    ELSE 0

\* C17: every retained commit, a parentless one and one with an empty diff
\* against its first parent included, adds one to its author's commit
\* count, one entry to the author's commit details and one to one year-month
\* bucket of the author's timeline; the file tallies come from the diff
\* against the first parent only.
C17_EveryRetainedCommitCounts ==
    \A w \in DOMAIN workers :
        LET an == workers[w].an
            retained == RetainedCommits(w)
            By(a) == { i \in 1..Len(retained) : retained[i].author = a }
        IN  /\ an.commit_count = Len(retained)
            /\ \A a \in AuthorNames :
                /\ an.author_commits[a] = Cardinality(By(a))
                /\ Len(an.author_commit_details[a]) = Cardinality(By(a))
                /\ \A m \in MonthKeys :
                    an.author_timeline[a][m] =
                        Cardinality({ i \in By(a) : MonthKey(retained[i].committed_date) = m })
                /\ \A p \in FilePaths :
                    an.author_file_changes[a][p] =
                        SumOver([i \in By(a) |->
                                    C17_FirstParentChanges(retained[i], an.exclude_files, p)],
                                By(a))
            /\ \A p \in FilePaths :
                an.file_changes[p] =
                    SumOver([i \in 1..Len(retained) |->
                                C17_FirstParentChanges(retained[i], an.exclude_files, p)],
                            1..Len(retained))

\* A parentless commit and a merge by the same author have been taken: two
\* commits counted, two details, one in each month, and of the merge's files
\* only the one changed against the first parent.
C17_Witness ==
    /\ workers # << >>
    /\ Len(workers[1].commits) = 2
    /\ ~workers[1].commits[1].has_parents
    /\ workers[1].commits[1].committed_date < 31 * SecondsPerDay
    /\ workers[1].commits[2] \in MergeCommits
    /\ workers[1].commits[1].author = workers[1].commits[2].author
    /\ LET a == workers[1].commits[1].author
       IN  /\ workers[1].an.author_commits[a] = 2
           /\ Len(workers[1].an.author_commit_details[a]) = 2
           /\ \A m \in MonthKeys : workers[1].an.author_timeline[a][m] = 1
    /\ workers[1].an.file_order = << <<"a">> >>

\* The diff-stat insertions and deletions of a commit, 0 when its stat
\* cannot be read.
C18_Insertions(commit) == IF commit.stats.available THEN commit.stats.insertions ELSE 0
C18_Deletions(commit) == IF commit.stats.available THEN commit.stats.deletions ELSE 0

\* C18: total_insertions and total_deletions are the sums, over every
\* retained commit, of the commit's diff-stat insertions and deletions when
\* its stat is available and 0 when it is not; a commit whose stat is
\* unavailable is still counted.
C18_TotalsSumEveryRetainedStat ==
    \A w \in DOMAIN workers :
        LET an == workers[w].an
            retained == RetainedCommits(w)
        IN  /\ an.total_insertions =
                SumSeq([i \in 1..Len(retained) |-> C18_Insertions(retained[i])])
            /\ an.total_deletions =
                SumSeq([i \in 1..Len(retained) |-> C18_Deletions(retained[i])])
            /\ an.commit_count = Len(retained)

\* The processed-commit numbers the tracker's updates were made at.
C19_ReportedAt(an) == { an.updates[i].message[1] : i \in 1..Len(an.updates) }

\* C19: with a progress tracker, for every commit sequence and every author
\* allow-list, the traversal has reported progress at every 20th processed
\* commit, and once the whole commits_list has been traversed it has
\* reported at the last commit it processed: a traversal that processed at
\* least one commit ends with a report for that commit.
C19_ReportsEvery20thAndFinalCommit ==
    \A w \in DOMAIN workers :
        LET an == workers[w].an
        IN  an.progress_tracker =>
                /\ \A k \in 1..an.commit_count :
                    k % ProgressEvery = 0 => k \in C19_ReportedAt(an)
                /\ (an.taken = an.total_commits /\ an.commit_count >= 1) =>
                    /\ an.updates # << >>
                    /\ an.updates[Len(an.updates)].message[1] = an.commit_count

\* The entries of author_quality_data in the result of worker w, once
\* analyze() has returned.
C20_Entries(w) ==
    IF workers[w].an.result.returned
    THEN workers[w].an.result.author_quality_data.data
    ELSE << >>

\* C20 as stated: for every author, total_code_changes is the sum
\* (total insertions * share) + (total deletions * share) rounded to an
\* integer, with share = the author's commits / the commits analysed:
\* whichever way the sum is rounded, the result is less than 1 away from it.
C20_TotalCodeChangesIsRoundedSum ==
    \A w \in DOMAIN workers :
        \A a \in DOMAIN C20_Entries(w) :
            LET an == workers[w].an
                entry == C20_Entries(w)[a]
                total == an.result.summary.total_commits
                sum == (an.total_insertions + an.total_deletions) * entry.total_commits
                off == entry.total_code_changes * total - sum
            IN  IF total = 0 THEN entry.total_code_changes = 0
                ELSE -total < off /\ off < total

\* C20, amended: for every author, total_code_changes is
\* int(total insertions * share) + int(total deletions * share): each of the
\* two products is cut to its whole part before they are added.
C20_TotalCodeChangesTruncatesEachProduct ==
    \A w \in DOMAIN workers :
        \A a \in DOMAIN C20_Entries(w) :
            LET an == workers[w].an
                entry == C20_Entries(w)[a]
                total == an.result.summary.total_commits
                n == entry.total_commits
            IN  entry.total_code_changes =
                    IF total = 0 THEN 0
                    ELSE ((an.total_insertions * n) \div total)
                         + ((an.total_deletions * n) \div total)

\* Two authors with one commit each, 3 insertions and 1 deletion in all: the
\* shares are 1.5 and 0.5, and each author's total_code_changes is 1 + 0.
C20_Witness ==
    /\ workers # << >>
    /\ workers[1].an.result.returned
    /\ workers[1].an.result.summary.total_commits = 2
    /\ workers[1].an.total_insertions = 3
    /\ workers[1].an.total_deletions = 1
    /\ DOMAIN C20_Entries(1) = AuthorNames
    /\ \A a \in AuthorNames :
        /\ C20_Entries(1)[a].total_commits = 1
        /\ C20_Entries(1)[a].total_code_changes = 1

\* The value v, in units of 1 / scale, is num / den rounded to the nearest
\* such unit (a tie may go either way).
C21_Rounds(v, scale, num, den) == 2 * AbsDiff(v * den, scale * num) <= den

\* The points calculate_scores gives a metrics dict, before its rounding.
C21_Score(data) ==
    ScoreCommitBehavior(data) + ScoreQualityAndScope(data) + ScoreActivity(data)

\* The metrics of author a that are rounded at line 450 and lines 452-459
\* hold the exact quantities of lines 373-445 rounded to one decimal.
C21_OneDecimalMetrics(a) ==
    LET details == author_commit_details[a]
        n == Len(details)
        times == { details[i].timestamp : i \in 1..n }
        active == Max(SecondsPerDay, SetMax(times) - SetMin(times))
        counts == author_file_changes[a]
        files == { p \in FilePaths : counts[p] > 0 }
        changes == SumOver(counts, files)
        hot == files \cap TopHotspotFiles(file_changes, file_order)
        q == QualityOf(a)
    IN  /\ C21_Rounds(q.active_days, 10, active, SecondsPerDay)
        /\ C21_Rounds(q.avg_message_length, 10,
                      SumSeq([i \in 1..n |-> Len(details[i].message)]), n)
        /\ \E now \in CurrentTimes :
            C21_Rounds(q.days_since_last_commit, 10, now - SetMax(times), SecondsPerDay)
        /\ IF files = {} THEN q.file_concentration = 0
           ELSE C21_Rounds(q.file_concentration, 10, 100 * changes, changes)
        /\ IF files = {} THEN q.hotspot_participation = 0
           ELSE C21_Rounds(q.hotspot_participation, 10,
                           100 * Cardinality(hot), Cardinality(files))
        /\ C21_Rounds(q.contribution_ratio, 10, 100 * n, commit_count)
        /\ IF q.total_file_modifications = 0 THEN q.rapid_rework_ratio = 0
           ELSE C21_Rounds(q.rapid_rework_ratio, 10,
                           100 * q.rapid_rework_count, q.total_file_modifications)

\* The exact average of files per commit and the exact average interval of
\* author a, as [num, den] fractions.
C21_AvgFiles(a) ==
    LET details == author_commit_details[a]
    IN  [num |-> SumSeq([i \in 1..Len(details) |-> details[i].files_count]),
         den |-> Len(details)]

C21_AvgInterval(a) ==
    LET details == author_commit_details[a]
        n == Len(details)
        times == { details[i].timestamp : i \in 1..n }
    IN  [num |-> Max(SecondsPerDay, SetMax(times) - SetMin(times)),
         den |-> IF n > 1 THEN SecondsPerDay * n ELSE SecondsPerDay]

\* C21 as stated: every ratio and average of an author's entry is rounded to
\* one decimal place (avg_files_per_commit and avg_commit_interval, held in
\* hundredths, are then multiples of 10), so the score of the stored metrics
\* is the score of the metrics displayed with one decimal.
C21_AllRoundedToOneDecimal ==
    \A a \in ScoredAuthors :
        LET q == QualityOf(a)
            shown == [q EXCEPT !.avg_files_per_commit = 10 * PyRound(@, 10),
                               !.avg_commit_interval = 10 * PyRound(@, 10)]
        IN  /\ C21_OneDecimalMetrics(a)
            /\ q.avg_files_per_commit % 10 = 0
            /\ C21_Rounds(q.avg_files_per_commit \div 10, 10,
                          C21_AvgFiles(a).num, C21_AvgFiles(a).den)
            /\ q.avg_commit_interval % 10 = 0
            /\ C21_Rounds(q.avg_commit_interval \div 10, 10,
                          C21_AvgInterval(a).num, C21_AvgInterval(a).den)
            /\ C21_Score(q) = C21_Score(shown)

\* C21, amended: avg_files_per_commit and avg_commit_interval are rounded to
\* two decimal places and the other seven ratios and averages to one, before
\* the entry reaches the scorer; the score of the stored entry is the score
\* of the eight metrics the scorer reads, displayed at those precisions.
C21_RoundedBeforeScoring ==
    \A a \in ScoredAuthors :
        LET q == QualityOf(a)
            shown == [k \in { "avg_files_per_commit", "days_since_last_commit",
                             "avg_message_length", "files_modified",
                             "total_code_changes", "rapid_rework_ratio",
                             "active_days", "contribution_ratio" } |-> q[k]]
        IN  /\ C21_OneDecimalMetrics(a)
            /\ C21_Rounds(q.avg_files_per_commit, 100,
                          C21_AvgFiles(a).num, C21_AvgFiles(a).den)
            /\ C21_Rounds(q.avg_commit_interval, 100,
                          C21_AvgInterval(a).num, C21_AvgInterval(a).den)
            /\ C21_Score(q) = C21_Score(shown)

\* An author with three commits of four files in all, a day or less apart:
\* avg_files_per_commit is 1.33 and avg_commit_interval 0.33, both with a
\* second decimal, next to one-decimal ratios.
C21_Witness ==
    /\ pc = "done"
    /\ \E a \in ScoredAuthors :
        /\ Len(author_commit_details[a]) = 3
        /\ QualityOf(a).avg_files_per_commit = 133
        /\ QualityOf(a).avg_commit_interval = 33
        /\ QualityOf(a).active_days = 10
        /\ QualityOf(a).contribution_ratio = 1000

\* The basename of a path once '\' counts as the separator '/' does: what
\* follows its last separator.
C22_Basename(p) ==
    LET seps == { i \in 1..Len(p) : p[i] \in { "/", "\\" } }
    IN  IF seps = {} THEN p ELSE SubSeq(p, SetMax(seps) + 1, Len(p))

\* The path's basename is, letter case included, one of the tokens of excl
\* that are not blank, with the white space around the token dropped.
C22_Excluded(excl, p) ==
    \E i \in 1..Len(excl) :
        /\ Strip(excl[i]) # << >>
        /\ Strip(excl[i]) = C22_Basename(p)

\* The paths of the commit's diff that are not excluded, in the diff's order.
C22_Kept(excl, commit) ==
    SelectSeq([i \in 1..Len(commit.diffs) |-> DiffFilePath(commit.diffs[i])],
              LAMBDA p : ~C22_Excluded(excl, p))

\* C22: a changed path is excluded exactly when its basename, taken after
\* the separators are normalised, is one of the trimmed non-blank exclusion
\* tokens, case-sensitively: the global count, the author's count and the
\* author's timestamp list of a path, and the files count of a commit, are
\* those of the paths that are not excluded (nothing for an excluded path),
\* and every commit is counted, one whose every path is excluded too.
C22_ExcludedByBasename ==
    \A w \in DOMAIN workers :
        LET an == workers[w].an
            commits == workers[w].commits
            excl == an.exclude_files
            By(a) == SelectSeq(commits, LAMBDA c : c.author = a)
            Touching(cs, p) == SelectSeq(cs, LAMBDA c : InSeq(p, C22_Kept(excl, c)))
        IN  /\ an.commit_count = Len(commits)
            /\ \A p \in FilePaths :
                /\ an.file_changes[p] = Len(Touching(commits, p))
                /\ InSeq(p, an.file_order) <=> Len(Touching(commits, p)) > 0
                /\ C22_Excluded(excl, p) =>
                    /\ an.file_changes[p] = 0
                    /\ \A a \in AuthorNames :
                        /\ an.author_file_changes[a][p] = 0
                        /\ an.author_file_timeline[a][p] = << >>
            /\ \A a \in AuthorNames :
                /\ an.author_commits[a] = Len(By(a))
                /\ Len(an.author_commit_details[a]) = Len(By(a))
                /\ \A k \in 1..Len(By(a)) :
                    /\ an.author_commit_details[a][k].files_count
                        = Len(C22_Kept(excl, By(a)[k]))
                    /\ an.author_commit_details[a][k].files = C22_Kept(excl, By(a)[k])
                /\ \A p \in FilePaths :
                    /\ an.author_file_changes[a][p] = Len(Touching(By(a), p))
                    /\ an.author_file_timeline[a][p] =
                        [k \in 1..Len(Touching(By(a), p)) |->
                            [timestamp |-> Touching(By(a), p)[k].committed_date]]

\* exclude_files is [" b", ""]: a commit that changes a, s/b and s\b has
\* been counted with one file, a, and a commit that changes s/b alone has
\* been counted with none.
C22_Witness ==
    /\ workers # << >>
    /\ workers[1].an.exclude_files = << <<" ", "b">>, << >> >>
    /\ Len(workers[1].commits) = 2
    /\ Len(workers[1].commits[1].diffs) = 3
    /\ workers[1].commits[2].diffs = SubSeq(DiffEntries, 2, 2)
    /\ workers[1].commits[1].author = workers[1].commits[2].author
    /\ workers[1].an.commit_count = 2
    /\ workers[1].an.file_order = << <<"a">> >>
    /\ workers[1].an.file_changes[<<"a">>] = 1
    /\ LET details == workers[1].an.author_commit_details[workers[1].commits[1].author]
       IN  /\ details[1].files_count = 1
           /\ details[2].files_count = 0

\* What is on the session's queue, nothing when the session has no queue.
C23_Queued(id) == IF id \in DOMAIN progress_queues THEN progress_queues[id] ELSE << >>

\* A terminal event: 'completed' or 'error'.
C23_Terminal(update) == update.stage \in { "completed", "error" }

\* The session's worker has emitted its terminal event and left
\* run_analysis_sync, and the session's stream has been requested.
C23_TerminalEmitted(id) ==
    /\ workers[id].at = "raised"
    /\ C23_Terminal(workers[id].updates[Len(workers[id].updates)])
    /\ streams[id].pc # "none"

\* The session's stream has delivered every event the worker emitted, the
\* terminal one last, has ended, and the session has no queue any more.
C23_Delivered(id) ==
    /\ streams[id].pc = "ended"
    /\ streams[id].yielded = workers[id].updates
    /\ id \notin DOMAIN progress_queues

\* At every moment the events the stream has delivered, followed by those
\* waiting on the queue and the one the callback is about to put, are the
\* events the session's worker has emitted, in their order; the callback
\* never finds the queue gone; a stream that has ended has delivered them all.
C23_InOrder(id) ==
    /\ streams[id].yielded \o C23_Queued(id) \o workers[id].callback = workers[id].updates
    /\ workers[id].at # "key_error"
    /\ streams[id].pc \in { "closing", "ended" } =>
        /\ workers[id].at = "raised"
        /\ streams[id].yielded = workers[id].updates
        /\ C23_Terminal(streams[id].yielded[Len(streams[id].yielded)])
    /\ streams[id].pc = "ended" => id \notin DOMAIN progress_queues

\* C23: for each session, under every interleaving of its worker thread and
\* its progress stream (and of the other session's), the stream delivers
\* the session's events in the order the worker emitted them, and once the
\* worker has emitted its terminal event the stream eventually delivers it,
\* ends, and removes the session's queue from progress_queues.
C23_StreamDeliversInOrderAndEnds ==
    /\ [](\A id \in SessionIds : C23_InOrder(id))
    /\ \A id \in SessionIds : C23_TerminalEmitted(id) ~> C23_Delivered(id)

\* The stream of s1 has delivered "init", "code_analysis" and "error" and has
\* ended, the queue of s1 is gone, while the events of s2, whose stream has
\* not been requested, all wait on the queue of s2.
C23_Witness ==
    /\ streams # << >>
    /\ streams["s1"].pc = "ended"
    /\ streams["s1"].yielded = << InitUpdate, CodeStartedUpdate, ErrorUpdate >>
    /\ DOMAIN progress_queues = { "s2" }
    /\ streams["s2"].pc = "none"
    /\ workers["s2"].at = "raised"
    /\ progress_queues["s2"] = << InitUpdate, CodeStartedUpdate, ErrorUpdate >>

====
